---- MODULE Spec2Model ----
(***************************************************************************)
(* Verification model of the repository's programs.  platypus-databridge:   *)
(*   - the SQL / SOQL batch orchestrators (main.py, main_soql.py),         *)
(*   - the scheduling decision should_run_query,                           *)
(*   - the incremental sync service (development/incremental.py),          *)
(*   - the Parquet file mover (parquet_file_mover.py);                     *)
(* achitect:                                                               *)
(*   - the ABA routing-number scraper (scraper.py).                        *)
(* Each subsystem has its own specification over the shared variables; the *)
(* variables of the other subsystems stay at their initial values.         *)
(***************************************************************************)
EXTENDS Integers, Sequences, FiniteSets, TLC

VARIABLES
    \* ---- execution-log database and wall clock (seconds) ----
    clock,                  \* dt.now(), whole seconds
    query_log,              \* table query_log, in id (insertion) order
    query_performance_log,  \* table query_performance_log, in id order
    \* ---- batch orchestrator (main.py / main_soql.py) ----
    path,                   \* "sql" (main.py) or "soql" (main_soql.py)
    envOk,                  \* the required environment variables are set
    force_run,              \* registry[q]["force_run"]
    pc,                     \* position of main()
    to_run,                 \* the filtered registry
    job,                    \* state of the pool job of each query
    started,                \* start = time.time() of each job
    exc,                    \* text of the exception raised inside each job
    moverRuns,              \* calls of FILE_MANAGER.run() made by main()
    logMark,                \* Len(query_log), Len(perf log) when main() began
    \* ---- scheduling decision taken on its own ----
    decision,
    \* ---- incremental sync service (development/incremental.py) ----
    mode,                   \* "demo" (FakeDremioClient) or "real" (Dremio)
    now_ms,                 \* int(time.time() * 1000)
    source,                 \* rows of each remote table (fake.source in the demo)
    local,                  \* rows of each local target table, None if absent
    sync_metadata,          \* last_sync_ts of each table, None without a row
    syncPc,                 \* position of main() / demo_fake_run()
    syncIdx,                \* index into specs of the sequential sync_many
    lastSync,               \* the latest sync_one attempt and what it found
    \* ---- Parquet file mover (parquet_file_mover.py) ----
    dry_run,                \* self.dry_run
    min_size_bytes,         \* self.min_size_bytes
    overrides,              \* self.overrides, keyed by lower-cased file name
    new_dir,                \* new_files_dir: file name -> size in bytes
    core_dir,               \* core_files_dir: file name -> size; None if missing
    review_dir,             \* review_dir: file name -> size; None if missing
    moved_to_review,        \* self.moved_to_review: <<file, rule>> pairs
    moved_to_core,          \* self.moved_to_core
    skipped_files,          \* self.skipped_files
    mvPc,                   \* position of ParquetFileManager.run()
    new_listing,            \* new_files of process_files, still to be handled
    core_listing,           \* core_files of process_files
    fsMark,                 \* the three folders when run() began
    \* ---- ABA routing-number scraper (achitect/scraper.py) ----
    csv_column,             \* text of the routing-number cells of the CSV file
    aba_numbers,            \* aba_numbers of main()
    scrPc,                  \* position of main()
    ach_rows,               \* ach_rows of main()
    wire_rows,              \* wire_rows of main()
    fail_rows,              \* fail_rows of main()
    processed,              \* the responses the loop has handled, in order
    ach_table,              \* table aba_fedach
    wire_table,             \* table aba_fedwire
    fail_table,             \* table aba_failures, in insertion order
    dbMark,                 \* the two directory tables before they were merged into
    \* ---- Tableau job polling (tableau_ops: check_job_status, _wait_for_job) ----
    poll_sleep,             \* seconds slept between two polls
    poll_timeout,           \* timeout
    poll_now,               \* time.time()
    poll_start,             \* start / start_time
    poll_job,               \* the job on the server: finish code and completion
    pollPc,                 \* position of the loop
    poll_result,            \* what the loop returned
    poll_last,              \* what the latest poll observed
    \* ---- Tableau operations (tableau_ops/orchestrator.py) ----
    program,                \* "orchestrator" (PlatypusTableauOrchestrator.run) or "users" (a TableauUserManager scope)
    tabPc,                  \* position of the program
    smtp,                   \* the smtp section of config.yaml
    retries,                \* refresh_config["retries"]
    token,                  \* the session the client's server object is signed in with, None if none
    sessions,               \* the sessions the Tableau site holds for the access token
    signIns,                \* sign_in calls that returned
    signOuts,               \* sign_out calls made
    scope,                  \* "before", "inside" or "left": the with block of the client or manager
    steps,                  \* the steps of run() that returned, in order
    attempt,                \* attempt of refresh_and_validate
    jobs,                   \* refresh jobs triggered
    sleeps,                 \* time.sleep(delay) calls of refresh_and_validate
    attempts_log,           \* how each attempt ended, in order
    result,                 \* result of refresh_and_validate
    refresh_end,            \* "none", "returned" or "raised": how refresh_and_validate ended
    notifications,          \* send_notification calls that reached the SMTP server
    caught,                 \* times the except block of run() was entered
    runEnd,                 \* "running", "returned" or "raised": how the program ended
    user_dry_run,           \* TableauUserManager.dry_run
    site_users,             \* names of the users of the site
    group_members,          \* the groups of the site and their members
    summary,                \* TableauUserManager.summary
    userAdds,               \* server.users.add calls
    groupAdds,              \* server.groups.add_user calls
    calls,                  \* manager methods called inside the scope
    last_call,              \* the latest add_user_and_assign_group call: arguments, lookups made, site before
    \* ---- FDIC field catalogs (bankyleaks/utils/utils.py, bankyleaks/marketshare/sod_ms.py) ----
    loader,                 \* "load_fields" or "_load_sod_fields"
    catalog,                \* the field names under properties.data.properties of the YAML file
    selected_fields,        \* the requested fields, in requested order
    fieldsPc,               \* "start" before the call, "returned" or "raised" after it
    fields,                 \* the returned string, None if none
    \* ---- Hyper file column types (platypus/utils/hyper_file_utils.py) ----
    df_column,              \* one column of the data frame: its dtype and its values
    hyperPc,                \* "start" before pandas_to_smallest_sqltype, "done" after it
    columns,                \* the SQL type given to the column, None if the column is left out
    \* ---- Retry loops (development/incremental.py retry, platypus/dremio_client/client.py get_client) ----
    retry_program,          \* "sync_one" (the retried fetch and the steps after it) or "get_client"
    max_retries,            \* get_client's max_retries argument
    tries,                  \* attempts made so far (tries in retry, the passes of get_client's loop)
    errors_seen,            \* the exception of each failed attempt, in order
    delays,                 \* the seconds slept after failed attempts, in order
    retryPc,                \* "loop", "fetched", "returned" or "raised"
    raised_exc,             \* the exception that left the function, None if none
    self_client,            \* self.client of DremioDatabase, None if not set
    return_value,           \* what get_client returned, None for no value
    later_runs,             \* times the steps after the fetch were run
    \* ---- Chunked fetch to Parquet (platypus/dremio_client/data_fetcher.py) ----
    endpoints,              \* flight_info.endpoints: per endpoint the row counts of the batches its reader yields
    chunk_size,             \* fetch_chunk's chunk_size argument
    full_output_path,       \* TRUE when an output path was given
    fetchPc,                \* "start", "reading", "returned" or "raised"
    endpoint,               \* index of the endpoint being read
    chunks_read,            \* batches read from the current endpoint
    batch_buffer,           \* the batches buffered since the last flush
    cumulative_rows,        \* rows in batch_buffer
    writer,                 \* "none", "open" or "closed"
    parquet,                \* the batches written to the file, in order
    tables_written,         \* the row count of each write_table call
    \* ---- Isochrone generation (isoreach/branch_polys.py, isoreach/cust_in_isos.py) ----
    gdf_bc,                 \* the branch codes, in frame order
    time_intervals_min,     \* cfg.time_intervals_min
    isoPc,                  \* "loop" or "done"
    iso_done,               \* iterations of the inner loop finished so far
    iso_requests,           \* the router.isochrones calls made: branch and requested seconds
    iso_rows,               \* the polygon records: branch, time_frame_minutes and the seconds requested for it
    \* ---- Parallel sync_many (development/incremental.py) ----
    worker,                 \* per table spec, the state of its worker process: "queued", "connected", "done" or "failed"
    merged,                 \* per table spec, the merged-row count its sync_one returned
    worker_error,           \* per table spec, the exception of its worker, None if none
    watermark_writers,      \* per table, the workers that wrote its sync_metadata row
    par_results,            \* the (table, merged-row count) pairs sync_many has collected
    collected,              \* the futures as_completed has yielded
    parPc                   \* "pool", "raising", "returned" or "raised"

batchVars == <<path, envOk, force_run, pc, to_run, job, started, exc,
               moverRuns, logMark>>
logVars == <<clock, query_log, query_performance_log>>
syncVars == <<mode, now_ms, source, local, sync_metadata, syncPc, syncIdx, lastSync>>
moverVars == <<dry_run, min_size_bytes, overrides, new_dir, core_dir, review_dir,
               moved_to_review, moved_to_core, skipped_files, mvPc, new_listing,
               core_listing, fsMark>>
scraperVars == <<csv_column, aba_numbers, scrPc, ach_rows, wire_rows, fail_rows,
                 processed, ach_table, wire_table, fail_table, dbMark>>
pollVars == <<poll_sleep, poll_timeout, poll_now, poll_start, poll_job, pollPc, poll_result, poll_last>>
tableauVars == <<program, tabPc, smtp, retries, token, sessions, signIns, signOuts, scope, steps, attempt, jobs, sleeps, attempts_log, result, refresh_end, notifications, caught, runEnd, user_dry_run, site_users, group_members, summary, userAdds, groupAdds, calls, last_call>>
fieldsVars == <<loader, catalog, selected_fields, fieldsPc, fields>>
hyperVars == <<df_column, hyperPc, columns>>
retryVars == <<retry_program, max_retries, tries, errors_seen, delays, retryPc, raised_exc, self_client, return_value, later_runs>>
fetchVars == <<endpoints, chunk_size, full_output_path, fetchPc, endpoint, chunks_read, batch_buffer, cumulative_rows, writer, parquet, tables_written>>
isoVars == <<gdf_bc, time_intervals_min, isoPc, iso_done, iso_requests, iso_rows>>
parVars == <<worker, merged, worker_error, watermark_writers, par_results, collected, parPc>>
\* The subsystems outside platypus-databridge.
restVars == <<scraperVars, pollVars, tableauVars, fieldsVars, hyperVars, retryVars, fetchVars, isoVars, parVars>>
\* platypus-databridge as a whole.
bridgeVars == <<logVars, batchVars, syncVars, moverVars>>
\* Everything but one subsystem.
notScraper == <<bridgeVars, decision, pollVars, tableauVars, fieldsVars, hyperVars, retryVars, fetchVars, isoVars, parVars>>
notPoll == <<bridgeVars, decision, scraperVars, tableauVars, fieldsVars, hyperVars, retryVars, fetchVars, isoVars, parVars>>
notTableau == <<bridgeVars, decision, scraperVars, pollVars, fieldsVars, hyperVars, retryVars, fetchVars, isoVars, parVars>>
notFields == <<bridgeVars, decision, scraperVars, pollVars, tableauVars, hyperVars, retryVars, fetchVars, isoVars, parVars>>
notHyper == <<bridgeVars, decision, scraperVars, pollVars, tableauVars, fieldsVars, retryVars, fetchVars, isoVars, parVars>>
notRetry == <<bridgeVars, decision, scraperVars, pollVars, tableauVars, fieldsVars, hyperVars, fetchVars, isoVars, parVars>>
notFetch == <<bridgeVars, decision, scraperVars, pollVars, tableauVars, fieldsVars, hyperVars, retryVars, isoVars, parVars>>
notIso == <<bridgeVars, decision, scraperVars, pollVars, tableauVars, fieldsVars, hyperVars, retryVars, fetchVars, parVars>>
notPar == <<bridgeVars, decision, scraperVars, pollVars, tableauVars, fieldsVars, hyperVars, retryVars, fetchVars, isoVars>>
vars == <<clock, query_log, query_performance_log, path, envOk, force_run, pc,
          to_run, job, started, exc, moverRuns, logMark, decision,
          mode, now_ms, source, local, sync_metadata, syncPc, syncIdx, lastSync,
          dry_run, min_size_bytes, overrides, new_dir, core_dir, review_dir,
          moved_to_review, moved_to_core, skipped_files, mvPc, new_listing,
          core_listing, fsMark,
          csv_column, aba_numbers, scrPc, ach_rows, wire_rows, fail_rows,
          processed, ach_table, wire_table, fail_table, dbMark,
          poll_sleep, poll_timeout, poll_now, poll_start, poll_job, pollPc, poll_result, poll_last,
          program, tabPc, smtp, retries, token, sessions, signIns, signOuts, scope, steps, attempt, jobs, sleeps, attempts_log, result, refresh_end, notifications, caught, runEnd, user_dry_run, site_users, group_members, summary, userAdds, groupAdds, calls, last_call,
          loader, catalog, selected_fields, fieldsPc, fields,
          df_column, hyperPc, columns,
          retry_program, max_retries, tries, errors_seen, delays, retryPc, raised_exc, self_client, return_value, later_runs,
          endpoints, chunk_size, full_output_path, fetchPc, endpoint, chunks_read, batch_buffer, cumulative_rows, writer, parquet, tables_written,
          gdf_bc, time_intervals_min, isoPc, iso_done, iso_requests, iso_rows,
          worker, merged, worker_error, watermark_writers, par_results, collected, parPc>>

\* An optional value: None for Python's None / SQL NULL, Some(x) otherwise.
None == <<>>
Some(x) == <<x>>

(***************************************************************************)
(* Bounds of the model                                                     *)
(***************************************************************************)
NQueries == 2       \* registry entries
MaxTicks == 1       \* seconds that may pass while the pool is working
MaxLog == 2         \* rows of query_log in the scheduling specification
NTables == 2        \* table specs handed to sync_many
MaxId == 1          \* primary keys of a remote table (the demo has its own)
MaxMs == 1          \* milliseconds that pass while the sync service is watched
\* int(time.time() * 1000) when the service starts.  Epoch milliseconds are of
\* the order of 10^12; the model only needs them to lie above every
\* last_modified_ts of the demo data (at most 6000).
StartMs == 7000

Queries == 1..NQueries

(***************************************************************************)
(* Program constants                                                       *)
(***************************************************************************)
MAX_WORKERS == 5
DEFAULT_FREQUENCY == "daily"

\* Frequencies a registry entry may carry; "monthly" stands for any string
\* that is not a key of the window table.
Frequencies == {"now", "daily", "weekly", "quarterly", "monthly"}

\* timedelta values of the window table, in seconds (an hour is 3600 s,
\* a day 86400 s, a week 7 days)
Window(frequency) ==
    CASE frequency = "now" -> 1
      [] frequency = "daily" -> 12 * 3600
      [] frequency = "weekly" -> 1 * 7 * 86400
      [] frequency = "quarterly" -> 120 * 86400
      [] OTHER -> 1 * 7 * 86400

\* The registry's frequency: DEFAULT_FREQUENCY unless OVERRIDES names the
\* query.  main.py has no override; main_soql.py overrides one query
\* (campaign_member.soql, here query 1) to "weekly".
Frequency(p, q) ==
    IF p = "soql" /\ q = 1 THEN "weekly" ELSE DEFAULT_FREQUENCY

(***************************************************************************)
(* Execution log                                                           *)
(***************************************************************************)
\* update_query_log: the row the INSERT appends (id and user_id left out).
LogRow(query_name, now, frequency, status, execution_time, error_message) ==
    [query_name |-> query_name, last_run |-> now, frequency |-> frequency,
     status |-> status, execution_time_seconds |-> execution_time,
     error_message |-> error_message]

update_query_log(log, query_name, now, frequency, status, execution_time, error_message) ==
    Append(log, LogRow(query_name, now, frequency, status, execution_time, error_message))

\* log_query_performance: the row the INSERT appends.
log_query_performance(plog, query_name, now, execution_time) ==
    Append(plog, [query_name |-> query_name,
                  execution_time_seconds |-> execution_time,
                  last_run |-> now])

RowsFor(log, q) == {i \in DOMAIN log : log[i].query_name = q}

\* ORDER BY last_run DESC LIMIT 1: the rows of q that may come first.  With
\* several rows sharing the greatest last_run the database may return any
\* of them.
LatestRows_Ascending(log, q) ==
    {i \in RowsFor(log, q) : \A j \in RowsFor(log, q) : log[i].last_run <= log[j].last_run}

LatestRows(log, q) ==
    {i \in RowsFor(log, q) : \A j \in RowsFor(log, q) : log[j].last_run <= log[i].last_run}

\* get_last_run_info: the possible results of fetchone(); None without a row.
get_last_run_info(log, q) ==
    IF RowsFor(log, q) = {} THEN {None}
    ELSE {Some([last_run |-> log[i].last_run, frequency |-> log[i].frequency,
                status |-> log[i].status]) : i \in LatestRows(log, q)}

\* should_run_query, given the row get_last_run_info returned.  The log only
\* ever holds the lower-case statuses "success" and "failed", on which
\* status.lower() is the identity; last_run is never NULL in a row written
\* by update_query_log.
should_run_query_Strict(info, now, frequency, force) ==
    IF force THEN TRUE
    ELSE IF info = None THEN TRUE
    ELSE IF info[1].status = "failed" THEN TRUE
    ELSE now - info[1].last_run > Window(frequency)

should_run_query(info, now, frequency, force) ==
    IF force THEN TRUE
    ELSE IF info = None THEN TRUE
    ELSE IF info[1].status = "failed" THEN TRUE
    ELSE now - info[1].last_run >= Window(frequency)

(***************************************************************************)
(* Batch orchestrator: main() of main.py (path "sql") and of main_soql.py  *)
(* (path "soql")                                                           *)
(***************************************************************************)
\* Texts of the exceptions the query clients raise while running or saving.
QueryErrors == {"flight unavailable"}
EnvError == "Missing required env vars"
CtorError == "client construction failed"
NameErrorText == "name 'record' is not defined"

IdleJobs == [q \in Queries |-> "idle"]
NoStarts == [q \in Queries |-> 0]
NoExcs == [q \in Queries |-> None]

JobFinished(q) == job[q] \in {"done", "raised"}

\* ThreadPoolExecutor(max_workers=...): a queued job starts when a worker
\* thread is free.
Busy == {q \in Queries : job[q] \in {"setup", "running", "logged"}}
WorkerFree == Cardinality(Busy) < MAX_WORKERS

\* Leaving the "with ... as pool" block (shutdown(wait=True)) returns once
\* every submitted job has ended, normally or with an exception.
AllJobsFinished == \A q \in to_run : JobFinished(q)

\* What earlier runs of the script left in the log database for a query:
\* nothing; a success 12 hours ago ("due" under the daily window); a success
\* 11 hours 59 minutes ago ("fresh"); or a failure 11 hours 59 minutes ago.
Histories == {"none", "due", "fresh", "failed"}
Now0 == 12 * 3600
HistoryTime(h) == IF h = "due" THEN 0 ELSE 60

\* The row of that earlier run: written by execute_query of main.py, or,
\* for the SOQL names, by mark_queries_as_success (execute_soql_query never
\* reaches a log write).
HistoryLogRow(p, q, h) ==
    IF h = "failed"
       THEN LogRow(q, HistoryTime(h), Frequency(p, q), "failed", None, Some("flight unavailable"))
       ELSE IF p = "sql"
               THEN LogRow(q, HistoryTime(h), Frequency(p, q), "success", Some(0), None)
               ELSE LogRow(q, HistoryTime(h), Frequency(p, q), "success", None,
                           Some("Marked as Success"))

RECURSIVE SeedLog(_, _, _, _)
SeedLog(p, hist, t, q) ==
    IF q > NQueries THEN <<>>
    ELSE (IF hist[q] # "none" /\ HistoryTime(hist[q]) = t
             THEN <<HistoryLogRow(p, q, hist[q])>> ELSE <<>>)
         \o SeedLog(p, hist, t, q + 1)

RECURSIVE SeedPerformanceLog(_, _, _, _)
SeedPerformanceLog(p, hist, t, q) ==
    IF q > NQueries THEN <<>>
    ELSE (IF p = "sql" /\ hist[q] \in {"due", "fresh"} /\ HistoryTime(hist[q]) = t
             THEN log_query_performance(<<>>, q, t, Some(0)) ELSE <<>>)
         \o SeedPerformanceLog(p, hist, t, q + 1)

\* The sync service and the file mover before they are started.
IdleSync ==
    /\ mode = "demo"
    /\ now_ms = 0
    /\ source = <<>>
    /\ local = <<>>
    /\ sync_metadata = <<>>
    /\ syncPc = "idle"
    /\ syncIdx = 0
    /\ lastSync = None

IdleMover ==
    /\ dry_run = TRUE
    /\ min_size_bytes = 0
    /\ overrides = <<>>
    /\ new_dir = <<>>
    /\ core_dir = None
    /\ review_dir = None
    /\ moved_to_review = <<>>
    /\ moved_to_core = <<>>
    /\ skipped_files = <<>>
    /\ mvPc = "idle"
    /\ new_listing = <<>>
    /\ core_listing = <<>>
    /\ fsMark = None

IdleScraper ==
    /\ csv_column = <<>>
    /\ aba_numbers = <<>>
    /\ scrPc = "start"
    /\ ach_rows = <<>>
    /\ wire_rows = <<>>
    /\ fail_rows = <<>>
    /\ processed = <<>>
    /\ ach_table = {}
    /\ wire_table = {}
    /\ fail_table = <<>>
    /\ dbMark = None

IdlePoll ==
    /\ poll_sleep = 0
    /\ poll_timeout = 0
    /\ poll_now = 0
    /\ poll_start = 0
    /\ poll_job = None
    /\ pollPc = "idle"
    /\ poll_result = None
    /\ poll_last = None

IdleTableau ==
    /\ program = "orchestrator"
    /\ tabPc = "start"
    /\ smtp = "disabled"
    /\ retries = 0
    /\ token = None
    /\ sessions = {}
    /\ signIns = 0
    /\ signOuts = 0
    /\ scope = "before"
    /\ steps = <<>>
    /\ attempt = 0
    /\ jobs = 0
    /\ sleeps = 0
    /\ attempts_log = <<>>
    /\ result = None
    /\ refresh_end = "none"
    /\ notifications = <<>>
    /\ caught = 0
    /\ runEnd = "running"
    /\ user_dry_run = FALSE
    /\ site_users = {}
    /\ group_members = <<>>
    /\ summary = <<>>
    /\ userAdds = 0
    /\ groupAdds = 0
    /\ calls = 0
    /\ last_call = None

IdleFields ==
    /\ loader = "load_fields"
    /\ catalog = {}
    /\ selected_fields = <<>>
    /\ fieldsPc = "start"
    /\ fields = None

IdleHyper ==
    /\ df_column = [dtype |-> "int64", values |-> <<>>]
    /\ hyperPc = "start"
    /\ columns = None

IdleRetry ==
    /\ retry_program = "sync_one"
    /\ max_retries = 0
    /\ tries = 0
    /\ errors_seen = <<>>
    /\ delays = <<>>
    /\ retryPc = "loop"
    /\ raised_exc = None
    /\ self_client = None
    /\ return_value = None
    /\ later_runs = 0

IdleFetch ==
    /\ endpoints = <<>>
    /\ chunk_size = 1
    /\ full_output_path = TRUE
    /\ fetchPc = "start"
    /\ endpoint = 0
    /\ chunks_read = 0
    /\ batch_buffer = <<>>
    /\ cumulative_rows = 0
    /\ writer = "none"
    /\ parquet = <<>>
    /\ tables_written = <<>>

IdleIso ==
    /\ gdf_bc = <<>>
    /\ time_intervals_min = <<>>
    /\ isoPc = "loop"
    /\ iso_done = 0
    /\ iso_requests = <<>>
    /\ iso_rows = <<>>

IdlePar ==
    /\ worker = <<>>
    /\ merged = <<>>
    /\ worker_error = <<>>
    /\ watermark_writers = <<>>
    /\ par_results = <<>>
    /\ collected = {}
    /\ parPc = "pool"

\* Nothing outside platypus-databridge has started.
IdleRest ==
    /\ IdleScraper
    /\ IdlePoll
    /\ IdleTableau
    /\ IdleFields
    /\ IdleHyper
    /\ IdleRetry
    /\ IdleFetch
    /\ IdleIso
    /\ IdlePar

IdleBatch ==
    /\ pc = "start"
    /\ to_run = {}
    /\ job = IdleJobs
    /\ started = NoStarts
    /\ exc = NoExcs
    /\ moverRuns = 0
    /\ logMark = <<0, 0>>

\* Nothing of platypus-databridge has started.
IdleBridge ==
    /\ clock = 0
    /\ query_log = <<>>
    /\ query_performance_log = <<>>
    /\ path = "sql"
    /\ envOk = TRUE
    /\ force_run = [q \in Queries |-> FALSE]
    /\ decision = None
    /\ IdleBatch
    /\ IdleSync
    /\ IdleMover

\* Everything but one subsystem is idle.
IdleButScraper ==
    /\ IdleBridge
    /\ IdlePoll
    /\ IdleTableau
    /\ IdleFields
    /\ IdleHyper
    /\ IdleRetry
    /\ IdleFetch
    /\ IdleIso
    /\ IdlePar

IdleButPoll ==
    /\ IdleBridge
    /\ IdleScraper
    /\ IdleTableau
    /\ IdleFields
    /\ IdleHyper
    /\ IdleRetry
    /\ IdleFetch
    /\ IdleIso
    /\ IdlePar

IdleButTableau ==
    /\ IdleBridge
    /\ IdleScraper
    /\ IdlePoll
    /\ IdleFields
    /\ IdleHyper
    /\ IdleRetry
    /\ IdleFetch
    /\ IdleIso
    /\ IdlePar

IdleButFields ==
    /\ IdleBridge
    /\ IdleScraper
    /\ IdlePoll
    /\ IdleTableau
    /\ IdleHyper
    /\ IdleRetry
    /\ IdleFetch
    /\ IdleIso
    /\ IdlePar

IdleButHyper ==
    /\ IdleBridge
    /\ IdleScraper
    /\ IdlePoll
    /\ IdleTableau
    /\ IdleFields
    /\ IdleRetry
    /\ IdleFetch
    /\ IdleIso
    /\ IdlePar

IdleButRetry ==
    /\ IdleBridge
    /\ IdleScraper
    /\ IdlePoll
    /\ IdleTableau
    /\ IdleFields
    /\ IdleHyper
    /\ IdleFetch
    /\ IdleIso
    /\ IdlePar

IdleButFetch ==
    /\ IdleBridge
    /\ IdleScraper
    /\ IdlePoll
    /\ IdleTableau
    /\ IdleFields
    /\ IdleHyper
    /\ IdleRetry
    /\ IdleIso
    /\ IdlePar

IdleButIso ==
    /\ IdleBridge
    /\ IdleScraper
    /\ IdlePoll
    /\ IdleTableau
    /\ IdleFields
    /\ IdleHyper
    /\ IdleRetry
    /\ IdleFetch
    /\ IdlePar

IdleButPar ==
    /\ IdleBridge
    /\ IdleScraper
    /\ IdlePoll
    /\ IdleTableau
    /\ IdleFields
    /\ IdleHyper
    /\ IdleRetry
    /\ IdleFetch
    /\ IdleIso

\* The state in which main() is entered: the log database as earlier runs of
\* the script left it, and the registry built.
Init ==
    /\ path \in {"sql", "soql"}
    /\ envOk \in BOOLEAN
    /\ force_run \in [Queries -> BOOLEAN]
    /\ clock = Now0
    /\ \E hist \in [Queries -> Histories] :
          /\ path = "soql" => \A q \in Queries : hist[q] # "failed"
          /\ query_log = SeedLog(path, hist, 0, 1) \o SeedLog(path, hist, 60, 1)
          /\ query_performance_log =
                SeedPerformanceLog(path, hist, 0, 1) \o SeedPerformanceLog(path, hist, 60, 1)
    /\ IdleBatch
    /\ decision = None
    /\ IdleSync
    /\ IdleMover
    /\ IdleRest

\* main(): the dict comprehension filtering the registry with
\* should_run_query, then either the early return or the submission of one
\* pool job per entry.
Select ==
    /\ pc = "start"
    /\ \E info \in [Queries -> UNION {get_last_run_info(query_log, q) : q \in Queries}] :
          /\ \A q \in Queries : info[q] \in get_last_run_info(query_log, q)
          /\ to_run' = {q \in Queries :
                          should_run_query(info[q], clock, Frequency(path, q), force_run[q])}
    /\ IF to_run' = {}
          THEN /\ pc' = "done"
               /\ job' = IdleJobs
          ELSE /\ pc' = "pool"
               /\ job' = [q \in Queries |-> IF q \in to_run' THEN "queued" ELSE "idle"]
    /\ logMark' = <<Len(query_log), Len(query_performance_log)>>
    /\ UNCHANGED <<logVars, path, envOk, force_run, started, exc, moverRuns,
                   decision, syncVars, moverVars, restVars>>

\* execute_query / execute_soql_query, before the try block:
\* ensure_*_env() raises when a required variable is missing.
JobEnvRaise(q) ==
    /\ pc = "pool" /\ job[q] = "queued" /\ WorkerFree
    /\ ~envOk
    /\ job' = [job EXCEPT ![q] = "raised"]
    /\ exc' = [exc EXCEPT ![q] = Some(EnvError)]
    /\ UNCHANGED <<logVars, path, envOk, force_run, pc, to_run, started,
                   moverRuns, logMark, decision, syncVars, moverVars, restVars>>

\* ... start = time.time(), then the executor is constructed, still before
\* the try block; the constructor may raise (os.getlogin()).
JobCtorRaise(q) ==
    /\ pc = "pool" /\ job[q] = "queued" /\ WorkerFree
    /\ envOk
    /\ job' = [job EXCEPT ![q] = "raised"]
    /\ exc' = [exc EXCEPT ![q] = Some(CtorError)]
    /\ UNCHANGED <<logVars, path, envOk, force_run, pc, to_run, started,
                   moverRuns, logMark, decision, syncVars, moverVars, restVars>>

JobBegin(q) ==
    /\ pc = "pool" /\ job[q] = "queued" /\ WorkerFree
    /\ envOk
    /\ job' = [job EXCEPT ![q] = "running"]
    /\ started' = [started EXCEPT ![q] = clock]
    /\ UNCHANGED <<logVars, path, envOk, force_run, pc, to_run, exc,
                   moverRuns, logMark, decision, syncVars, moverVars, restVars>>

\* execute_query, try block: the query ran and its output was saved;
\* update_query_log(..., "success", elapsed).
JobLogSuccess(q) ==
    /\ pc = "pool" /\ job[q] = "running" /\ path = "sql"
    /\ query_log' = update_query_log(query_log, q, clock, Frequency(path, q),
                                     "success", Some(clock - started[q]), None)
    /\ job' = [job EXCEPT ![q] = "logged"]
    /\ UNCHANGED <<clock, query_performance_log, path, envOk, force_run, pc,
                   to_run, started, exc, moverRuns, logMark, decision, syncVars, moverVars, restVars>>

\* ... then log_query_performance(query_name, elapsed).
JobLogPerformance(q) ==
    /\ pc = "pool" /\ job[q] = "logged"
    /\ query_performance_log' =
          log_query_performance(query_performance_log, q, clock,
                                query_log[CHOOSE i \in RowsFor(query_log, q) :
                                   \A j \in RowsFor(query_log, q) : j <= i].execution_time_seconds)
    /\ job' = [job EXCEPT ![q] = "done"]
    /\ UNCHANGED <<clock, query_log, path, envOk, force_run, pc, to_run,
                   started, exc, moverRuns, logMark, decision, syncVars, moverVars, restVars>>

\* execute_query, except block: the executor raised e;
\* update_query_log(..., "failed", None, str(e)).
JobLogFailure(q, e) ==
    /\ pc = "pool" /\ job[q] = "running" /\ path = "sql"
    /\ query_log' = update_query_log(query_log, q, clock, Frequency(path, q),
                                     "failed", None, Some(e))
    /\ exc' = [exc EXCEPT ![q] = Some(e)]
    /\ job' = [job EXCEPT ![q] = "done"]
    /\ UNCHANGED <<clock, query_performance_log, path, envOk, force_run, pc,
                   to_run, started, moverRuns, logMark, decision, syncVars, moverVars, restVars>>

\* execute_soql_query, try block: the parameter is named rec and the body
\* reads record, which is no name of the module: evaluating record["soql"]
\* raises NameError, and so does record["frequency"] in the except block,
\* from which the NameError leaves the function.
JobNameError(q) ==
    /\ pc = "pool" /\ job[q] = "running" /\ path = "soql"
    /\ exc' = [exc EXCEPT ![q] = Some(NameErrorText)]
    /\ job' = [job EXCEPT ![q] = "raised"]
    /\ UNCHANGED <<logVars, path, envOk, force_run, pc, to_run, started,
                   moverRuns, logMark, decision, syncVars, moverVars, restVars>>

\* A second passes while the pool is working.
Tick ==
    /\ pc = "pool" /\ clock < Now0 + MaxTicks
    /\ clock' = clock + 1
    /\ UNCHANGED <<query_log, query_performance_log, path, envOk, force_run,
                   pc, to_run, job, started, exc, moverRuns, logMark, decision, syncVars, moverVars, restVars>>

\* main(): the as_completed loop and the end of the with block.  f.result()
\* re-raises the exception of a job; the with block still waits for every
\* job, and the exception then leaves main(), skipping what follows.
\* Otherwise main.py goes on to FILE_MANAGER.run(); main_soql.py is done.
Join ==
    /\ pc = "pool"
    /\ AllJobsFinished
    /\ IF \E q \in to_run : job[q] = "raised"
          THEN pc' = "raised" /\ moverRuns' = moverRuns
          ELSE IF path = "sql"
                  THEN pc' = "mover" /\ moverRuns' = moverRuns + 1
                  ELSE pc' = "done" /\ moverRuns' = moverRuns
    /\ UNCHANGED <<logVars, path, envOk, force_run, to_run, job, started, exc,
                   logMark, decision, syncVars, moverVars, restVars>>

\* FILE_MANAGER.run() returns and main() prints its last line.
MoverDone ==
    /\ pc = "mover"
    /\ pc' = "done"
    /\ UNCHANGED <<logVars, path, envOk, force_run, to_run, job, started, exc,
                   moverRuns, logMark, decision, syncVars, moverVars, restVars>>

Next ==
    \/ Select
    \/ \E q \in Queries : JobEnvRaise(q)
    \/ \E q \in Queries : JobCtorRaise(q)
    \/ \E q \in Queries : JobBegin(q)
    \/ \E q \in Queries : JobLogSuccess(q)
    \/ \E q \in Queries : JobLogPerformance(q)
    \/ \E q \in Queries, e \in QueryErrors : JobLogFailure(q, e)
    \/ \E q \in Queries : JobNameError(q)
    \/ Tick
    \/ Join
    \/ MoverDone

Spec == Init /\ [][Next]_vars

(***************************************************************************)
(* Claims about the batch run                                              *)
(***************************************************************************)
\* Rows appended to the two logs for q since main() began.
NewLogRows(q) == {i \in RowsFor(query_log, q) : i > logMark[1]}
NewPerformanceRows(q) == {i \in RowsFor(query_performance_log, q) : i > logMark[2]}

\* C1: a job in which an exception was raised ends without raising, having
\* appended exactly one failed row (execution time NULL, error message the
\* exception's text) to query_log and nothing to query_performance_log; a
\* job without an exception appends exactly one success row to each log.
C1_ExceptionLoggedAndSwallowed ==
    \A q \in Queries :
        JobFinished(q) =>
            IF exc[q] # None
               THEN /\ job[q] = "done"
                    /\ Cardinality(NewLogRows(q)) = 1
                    /\ \A i \in NewLogRows(q) :
                          /\ query_log[i].status = "failed"
                          /\ query_log[i].execution_time_seconds = None
                          /\ query_log[i].error_message = exc[q]
                    /\ NewPerformanceRows(q) = {}
               ELSE /\ Cardinality(NewLogRows(q)) = 1
                    /\ \A i \in NewLogRows(q) : query_log[i].status = "success"
                    /\ Cardinality(NewPerformanceRows(q)) = 1

\* C4: in the SQL batch run the file mover runs exactly once, after every
\* submitted job has ended whether it succeeded or failed, and never while a
\* job is still running; with no entry due nothing is executed or logged
\* and the mover does not run.
C4_MoverOnceAfterAllJobs ==
    path = "sql" =>
        /\ pc = "mover" => AllJobsFinished
        /\ moverRuns <= 1
        /\ (pc \in {"done", "raised"} /\ to_run # {}) => moverRuns = 1
        /\ (pc = "done" /\ to_run = {}) =>
              /\ moverRuns = 0
              /\ job = IdleJobs
              /\ Len(query_log) = logMark[1]
              /\ Len(query_performance_log) = logMark[2]

(***************************************************************************)
(* The scheduling decision on its own: rows are appended to query_log,     *)
(* time passes, and should_run_query is asked.                             *)
(***************************************************************************)
\* Instants (seconds) at which the log is written or the decision is taken.
Instants == {0, 1, 43140, 43200, 604800, 10368000}

InitSched ==
    /\ clock = 0
    /\ query_log = <<>>
    /\ query_performance_log = <<>>
    /\ path = "sql"
    /\ envOk = TRUE
    /\ force_run = [q \in Queries |-> FALSE]
    /\ IdleBatch
    /\ decision = None
    /\ IdleSync
    /\ IdleMover
    /\ IdleRest

\* update_query_log as execute_query and mark_queries_as_success call it.
SchedAppend(q, status) ==
    /\ Len(query_log) < MaxLog
    /\ query_log' =
          IF status = "failed"
             THEN update_query_log(query_log, q, clock, DEFAULT_FREQUENCY,
                                   "failed", None, Some("flight unavailable"))
             ELSE update_query_log(query_log, q, clock, DEFAULT_FREQUENCY,
                                   "success", None, Some("Marked as Success"))
    /\ decision' = None
    /\ UNCHANGED <<clock, query_performance_log, batchVars, syncVars, moverVars, restVars>>

\* Time passes.
SchedAdvance(t) ==
    /\ t > clock
    /\ clock' = t
    /\ decision' = None
    /\ UNCHANGED <<query_log, query_performance_log, batchVars, syncVars, moverVars, restVars>>

\* should_run_query(query_name, frequency, force_run) is called.
Decide(q, frequency, force) ==
    /\ \E info \in get_last_run_info(query_log, q) :
          decision' = Some([query_name |-> q, frequency |-> frequency,
                            force_run |-> force, now |-> clock, info |-> info,
                            result |-> should_run_query(info, clock, frequency, force)])
    /\ UNCHANGED <<logVars, batchVars, syncVars, moverVars, restVars>>

NextSched ==
    \/ \E q \in Queries, status \in {"success", "failed"} : SchedAppend(q, status)
    \/ \E t \in Instants : SchedAdvance(t)
    \/ \E q \in Queries, f \in Frequencies, force \in BOOLEAN : Decide(q, f, force)

SpecSched == InitSched /\ [][NextSched]_vars

\* C2: without force_run and with a most recent row that is not failed,
\* should_run_query returns true exactly when now - last_run is at least
\* the window: 1 s for now, 12 h for daily, 1 week for weekly, 120 days for
\* quarterly, 1 week for anything else; 12 h elapsed under daily runs,
\* 11 h 59 min does not.
C2_WindowRule ==
    decision # None =>
        LET d == decision[1]
            ClaimWindow == CASE d.frequency = "now" -> 1
                             [] d.frequency = "daily" -> 43200
                             [] d.frequency = "weekly" -> 604800
                             [] d.frequency = "quarterly" -> 10368000
                             [] OTHER -> 604800
        IN  (~d.force_run /\ d.info # None /\ d.info[1].status # "failed") =>
                /\ d.result <=> (d.now - d.info[1].last_run >= ClaimWindow)
                /\ (d.frequency = "daily" /\ d.now - d.info[1].last_run = 43200) => d.result
                /\ (d.frequency = "daily" /\ d.now - d.info[1].last_run = 43140) => ~d.result

C2_Witness ==
    /\ decision # None
    /\ ~decision[1].force_run
    /\ decision[1].frequency = "daily"
    /\ decision[1].info # None
    /\ decision[1].info[1].status = "success"
    /\ decision[1].now - decision[1].info[1].last_run = 43200
    /\ decision[1].result

Tables == 1..NTables
DemoTable == 1

Row(id, name, ts) == [id |-> id, name |-> name, last_modified_ts |-> ts]

\* demo_fake_run: the seeded frame df and the later frame df2.
DemoSeed == {Row(1, "alpha", 1000), Row(2, "bravo", 2000), Row(3, "charlie", 3000)}
DemoBatch == {Row(2, "bravo2", 4000), Row(3, "charlie2", 5000), Row(4, "delta", 6000)}

\* What can go wrong in one attempt: the fetch raises on every retry, the
\* reader has no columns, the primary key column is missing from the
\* incoming data, or the MERGE statement raises.
Faults == {"none", "fetch", "no_schema", "no_pk", "merge"}

\* get_last_sync_ts: 0 without a row.
get_last_sync_ts(meta) == IF meta = None THEN 0 ELSE meta[1]

\* _make_incremental_sql / FakeDremioClient.toArrow: the rows whose
\* last-modified column is greater than the watermark.
Staged(src, last_ms) == {r \in src : r.last_modified_ts > last_ms}

\* _ensure_target_exists: CREATE TABLE IF NOT EXISTS ... WHERE 1 = 0.
EnsureTarget(lcl) == IF lcl = None THEN Some({}) ELSE lcl

\* _merge_sql: matched target rows take every column of their source row,
\* unmatched source rows are inserted.
MergeRows(target, staged) ==
    LET Matches(t) == {r \in staged : r.id = t.id}
        Updated(t) == IF Matches(t) = {} THEN t ELSE CHOOSE r \in Matches(t) : TRUE
    IN  {Updated(t) : t \in target}
           \cup {r \in staged : \A t \in target : t.id # r.id}

\* How one attempt of sync_one ends.
Outcome(staged, fault) ==
    IF fault = "fetch" THEN "fetch_error"
    ELSE IF fault = "no_schema" THEN "no_schema"
    ELSE IF staged = {} THEN "no_rows"
    ELSE IF fault = "no_pk" THEN "pk_error"
    ELSE IF fault = "merge" THEN "merge_error"
    ELSE "merged"

Raised(outcome) == outcome \in {"fetch_error", "pk_error", "merge_error"}

\* The calls of meta.set_last_sync_ts(spec.local_name, cur_ms): on the empty
\* schema, on zero rows and after the merge; an attempt that raises never
\* reaches one.
WatermarkAfter_Always(outcome, meta, cur_ms) == Some(cur_ms)

WatermarkAfter_MergedOnly(outcome, meta, cur_ms) ==
    IF outcome = "merged" THEN Some(cur_ms) ELSE meta

WatermarkAfter(outcome, meta, cur_ms) ==
    IF outcome \in {"no_schema", "no_rows", "merged"} THEN Some(cur_ms) ELSE meta

\* The local target table after the attempt.
LocalAfter(outcome, lcl, staged) ==
    IF outcome \in {"pk_error", "merge_error"} THEN EnsureTarget(lcl)
    ELSE IF outcome = "merged" THEN Some(MergeRows(EnsureTarget(lcl)[1], staged))
    ELSE lcl

\* sync_one(spec): the attempt on table t at wall-clock time cur_ms.
sync_one(t, fault) ==
    LET last_ms == get_last_sync_ts(sync_metadata[t])
        cur_ms == now_ms
        staged == Staged(source[t], last_ms)
        outcome == Outcome(staged, fault)
    IN  /\ local' = [local EXCEPT ![t] = LocalAfter(outcome, local[t], staged)]
        /\ sync_metadata' =
              [sync_metadata EXCEPT ![t] = WatermarkAfter(outcome, sync_metadata[t], cur_ms)]
        /\ lastSync' = Some([table |-> t, last_ms |-> last_ms, cur_ms |-> cur_ms,
                             outcome |-> outcome,
                             n |-> IF outcome = "merged" THEN Cardinality(staged) ELSE 0,
                             staged |-> staged,
                             localBefore |-> local[t],
                             metaBefore |-> sync_metadata[t]])

InitSync ==
    /\ mode \in {"demo", "real"}
    /\ now_ms = StartMs
    /\ source = [t \in Tables |-> {}]
    /\ local = [t \in Tables |-> None]
    /\ sync_metadata = [t \in Tables |-> None]
    /\ syncPc = "start"
    /\ syncIdx = 0
    /\ lastSync = None
    /\ clock = 0
    /\ query_log = <<>>
    /\ query_performance_log = <<>>
    /\ path = "sql"
    /\ envOk = TRUE
    /\ force_run = [q \in Queries |-> FALSE]
    /\ IdleBatch
    /\ decision = None
    /\ IdleMover
    /\ IdleRest

\* demo_fake_run: the fake client is built over the seeded frame.
DemoStart ==
    /\ mode = "demo" /\ syncPc = "start"
    /\ source' = [source EXCEPT ![DemoTable] = DemoSeed]
    /\ syncPc' = "demo_sync1"
    /\ UNCHANGED <<mode, now_ms, local, sync_metadata, syncIdx, lastSync,
                   logVars, batchVars, decision, moverVars, restVars>>

\* demo_fake_run: service.sync_one(spec), three times; the fake client
\* never fails.
DemoSync ==
    /\ mode = "demo" /\ syncPc \in {"demo_sync1", "demo_sync2", "demo_sync3"}
    /\ sync_one(DemoTable, "none")
    /\ syncPc' = CASE syncPc = "demo_sync1" -> "demo_sync2"
                   [] syncPc = "demo_sync2" -> "demo_swap"
                   [] syncPc = "demo_sync3" -> "done"
    /\ UNCHANGED <<mode, now_ms, source, syncIdx, logVars, batchVars, decision, moverVars, restVars>>

\* demo_fake_run: fake.source = df2.
DemoSwap ==
    /\ mode = "demo" /\ syncPc = "demo_swap"
    /\ source' = [source EXCEPT ![DemoTable] = DemoBatch]
    /\ syncPc' = "demo_sync3"
    /\ UNCHANGED <<mode, now_ms, local, sync_metadata, syncIdx, lastSync,
                   logVars, batchVars, decision, moverVars, restVars>>

\* main(): a live connection exists; sync_many(specs, parallel=False).
RealStart ==
    /\ mode = "real" /\ syncPc = "start"
    /\ syncPc' = "sync_many"
    /\ syncIdx' = 1
    /\ UNCHANGED <<mode, now_ms, source, local, sync_metadata, lastSync,
                   logVars, batchVars, decision, moverVars, restVars>>

\* sync_many, sequential branch: the next spec is synced; an exception of
\* sync_one leaves sync_many and main().
RealSync(fault) ==
    /\ mode = "real" /\ syncPc = "sync_many"
    /\ sync_one(syncIdx, fault)
    /\ IF Raised(Outcome(Staged(source[syncIdx], get_last_sync_ts(sync_metadata[syncIdx])), fault))
          THEN syncPc' = "raised" /\ syncIdx' = syncIdx
          ELSE IF syncIdx = NTables
                  THEN syncPc' = "done" /\ syncIdx' = syncIdx
                  ELSE syncPc' = "sync_many" /\ syncIdx' = syncIdx + 1
    /\ UNCHANGED <<mode, now_ms, source, logVars, batchVars, decision, moverVars, restVars>>

\* The remote table changes: a row is written or rewritten, stamped with the
\* current time.
RemoteUpsert(t, id) ==
    /\ mode = "real"
    /\ source' = [source EXCEPT ![t] =
                     {r \in @ : r.id # id} \cup {Row(id, "row", now_ms)}]
    /\ UNCHANGED <<mode, now_ms, local, sync_metadata, syncPc, syncIdx, lastSync,
                   logVars, batchVars, decision, moverVars, restVars>>

\* A millisecond passes.
TickMs ==
    /\ now_ms < StartMs + MaxMs
    /\ now_ms' = now_ms + 1
    /\ UNCHANGED <<mode, source, local, sync_metadata, syncPc, syncIdx, lastSync,
                   logVars, batchVars, decision, moverVars, restVars>>

\* The script is started again on the same database file.
SyncRerun ==
    /\ syncPc \in {"done", "raised"}
    /\ syncPc' = "start"
    /\ syncIdx' = 0
    /\ UNCHANGED <<mode, now_ms, source, local, sync_metadata, lastSync,
                   logVars, batchVars, decision, moverVars, restVars>>

NextSync ==
    \/ DemoStart
    \/ DemoSync
    \/ DemoSwap
    \/ RealStart
    \/ \E fault \in Faults : RealSync(fault)
    \/ \E t \in Tables, id \in 1..MaxId : RemoteUpsert(t, id)
    \/ TickMs
    \/ SyncRerun

SpecSync == InitSync /\ [][NextSync]_vars

C6_ZeroRowSync ==
    lastSync # None =>
        LET a == lastSync[1]
        IN  (a.staged = {} /\ a.outcome \notin {"fetch_error", "no_schema"}) =>
                /\ a.n = 0
                /\ local[a.table] = a.localBefore
                /\ sync_metadata[a.table] = Some(a.cur_ms)

C6_Witness ==
    /\ lastSync # None
    /\ lastSync[1].outcome = "no_rows"
    /\ lastSync[1].localBefore # None
    /\ lastSync[1].localBefore[1] # {}
    /\ lastSync[1].metaBefore # Some(lastSync[1].cur_ms)
    /\ sync_metadata[lastSync[1].table] = Some(lastSync[1].cur_ms)

\* C7: in the demo the first sync leaves 3 local rows; the second merges 0
\* rows and leaves the same 3 rows; the third, after the source was replaced
\* by the batch updating ids 2 and 3 and adding id 4, merges that batch (2
\* rows updated in place, 1 inserted), after which the local table holds
\* exactly 3 rows and no primary key twice.
C7_DemoRun ==
    (mode = "demo" /\ lastSync # None) =>
        LET rows == local[DemoTable][1]
        IN  /\ syncPc = "demo_sync2" => Cardinality(rows) = 3
            /\ syncPc = "demo_swap" =>
                  /\ lastSync[1].n = 0
                  /\ local[DemoTable] = lastSync[1].localBefore
                  /\ Cardinality(rows) = 3
            /\ syncPc = "done" =>
                  /\ lastSync[1].n = 3
                  /\ {Row(2, "bravo2", 4000), Row(3, "charlie2", 5000),
                      Row(4, "delta", 6000)} \subseteq rows
                  /\ Cardinality(rows) = 3
                  /\ \A r1, r2 \in rows : r1.id = r2.id => r1 = r2

(***************************************************************************)
(* Parquet file mover (parquet_file_mover.py)                              *)
(*                                                                         *)
(* A folder is a function from the names of its *.parquet files to their   *)
(* sizes in bytes, None when the folder does not exist.  Names in one      *)
(* folder differ in more than case, as on the file system the script's     *)
(* paths are written for.                                                  *)
(***************************************************************************)
FileNames == {"a.parquet", "A.parquet", "b.parquet"}

\* str.lower() on the file names of the model.
Lower(name) == IF name = "A.parquet" THEN "a.parquet" ELSE name

EmptyFolder == [n \in {} |-> 0]

\* size_threshold = 0.99, as the fraction 99 / 100.  new_size / core_size
\* and 0.99 are doubles in the code; for sizes below 10^14 bytes the double
\* comparison agrees with the exact one made here.
SIZE_THRESHOLD_NUM == 99
SIZE_THRESHOLD_DEN == 100

Flags == [force_review : BOOLEAN, force_core : BOOLEAN,
          ignore_min_size : BOOLEAN, ignore_ratio : BOOLEAN]
NoFlags == [force_review |-> FALSE, force_core |-> FALSE,
            ignore_min_size |-> FALSE, ignore_ratio |-> FALSE]

\* __init__: self.overrides = {k.lower(): v for k, v in overrides.items()}
LowerKeys(config) ==
    [k \in {Lower(n) : n \in DOMAIN config} |->
        config[CHOOSE n \in DOMAIN config : Lower(n) = k]]

\* get_parquet_file_sizes: {f.name.lower(): f.stat().st_size for f in
\* folder.glob("*.parquet")}; nothing for a folder that does not exist.
get_parquet_file_sizes(folder) ==
    IF folder = None THEN EmptyFolder
    ELSE [k \in {Lower(n) : n \in DOMAIN folder[1]} |->
             folder[1][CHOOSE n \in DOMAIN folder[1] : Lower(n) = k]]

\* _get_override: self.overrides.get(filename.lower(), {}); a missing flag
\* reads as false.
GetOverride(ovs, filename) ==
    IF Lower(filename) \in DOMAIN ovs THEN ovs[Lower(filename)] ELSE NoFlags

\* ratio < self.size_threshold, with ratio = new_size / core_size
RatioBelow_OrEqual(new_size, core_size) ==
    new_size * SIZE_THRESHOLD_DEN <= SIZE_THRESHOLD_NUM * core_size

RatioBelow(new_size, core_size) ==
    new_size * SIZE_THRESHOLD_DEN < SIZE_THRESHOLD_NUM * core_size

\* _decide_destination: <<destination, rule>>; core_size is None without a
\* same-named core file.
DecideDestination_CoreFirst(ov, min_size, new_size, core_size) ==
    IF ov.force_core THEN <<"core", "forced by override">>
    ELSE IF ov.force_review THEN <<"review", "forced by override">>
    ELSE IF ~ov.ignore_min_size /\ new_size < min_size THEN <<"review", "small file">>
    ELSE IF core_size # None /\ core_size[1] > 0 /\ ~ov.ignore_ratio
            /\ RatioBelow(new_size, core_size[1])
         THEN <<"review", "size ratio">>
    ELSE <<"core", "meets size rules">>

DecideDestination(ov, min_size, new_size, core_size) ==
    IF ov.force_review THEN <<"review", "forced by override">>
    ELSE IF ov.force_core THEN <<"core", "forced by override">>
    ELSE IF ~ov.ignore_min_size /\ new_size < min_size THEN <<"review", "small file">>
    ELSE IF core_size # None /\ core_size[1] > 0 /\ ~ov.ignore_ratio
            /\ RatioBelow(new_size, core_size[1])
         THEN <<"review", "size ratio">>
    ELSE <<"core", "meets size rules">>

\* ensure_directories: a missing folder is created unless dry_run.
EnsureDirectory(folder, dry) ==
    IF folder = None /\ ~dry THEN Some(EmptyFolder) ELSE folder

\* shutil.move into a folder: the file arrives under the name dest_name
\* and replaces a file of that name (in any case); the folder is created
\* first (destination.parent.mkdir).
PutFile(folder, dest_name, size) ==
    LET old == IF folder = None THEN EmptyFolder ELSE folder[1]
        keep == {n \in DOMAIN old : Lower(n) # Lower(dest_name)}
    IN  Some([n \in keep \cup {dest_name} |-> IF n = dest_name THEN size ELSE old[n]])

\* shutil.move out of a folder.
TakeFile(dir, key) ==
    [n \in {m \in DOMAIN dir : Lower(m) # key} |-> dir[n]]

\* move_file: nothing happens in dry-run mode.
MoveFile_IgnoresDryRun(dry, key, size, src, dst) ==
    [src |-> TakeFile(src, key), dst |-> PutFile(dst, key, size)]

MoveFile(dry, key, size, src, dst) ==
    IF dry THEN [src |-> src, dst |-> dst]
    ELSE [src |-> TakeFile(src, key), dst |-> PutFile(dst, key, size)]

\* Folder contents and configurations the runs start from.
NewSizesA == {5, 989, 990, 10240}
NewSizesB == {5, 10240}
CoreSizesA == {0, 1000}
CoreSizesB == {1000}
MinSizes == {10, 10 * 1024}

FoldersOver(namesA, sizesA, sizesB) ==
    {EmptyFolder}
      \cup {[n \in {a} |-> sa] : a \in namesA, sa \in sizesA}
      \cup {[n \in {"b.parquet"} |-> sb] : sb \in sizesB}
      \cup UNION {{[n \in {a, "b.parquet"} |-> IF n = a THEN sa ELSE sb] : sb \in sizesB}
                    : a \in namesA, sa \in sizesA}

OverrideConfigs ==
    {EmptyFolder} \cup UNION {{[n \in {k} |-> f] : f \in Flags} : k \in {"a.parquet", "A.parquet"}}

InitMover ==
    /\ dry_run \in BOOLEAN
    /\ min_size_bytes \in MinSizes
    /\ \E config \in OverrideConfigs : overrides = LowerKeys(config)
    /\ new_dir \in FoldersOver({"a.parquet", "A.parquet"}, NewSizesA, NewSizesB)
    /\ core_dir \in {None} \cup {Some(f) : f \in FoldersOver({"a.parquet"}, CoreSizesA, CoreSizesB)}
    /\ review_dir \in {None, Some(EmptyFolder)}
    /\ moved_to_review = <<>>
    /\ moved_to_core = <<>>
    /\ skipped_files = <<>>
    /\ mvPc = "idle"
    /\ new_listing = EmptyFolder
    /\ core_listing = EmptyFolder
    /\ fsMark = None
    /\ clock = 0
    /\ query_log = <<>>
    /\ query_performance_log = <<>>
    /\ path = "sql"
    /\ envOk = TRUE
    /\ force_run = [q \in Queries |-> FALSE]
    /\ IdleBatch
    /\ decision = None
    /\ IdleSync
    /\ IdleRest

\* run() up to the loop of process_files: ensure_directories, then the two
\* listings.
MoverStart ==
    /\ mvPc = "idle"
    /\ fsMark' = Some([new |-> new_dir, core |-> core_dir, review |-> review_dir])
    /\ review_dir' = EnsureDirectory(review_dir, dry_run)
    /\ core_dir' = EnsureDirectory(core_dir, dry_run)
    /\ new_listing' = get_parquet_file_sizes(Some(new_dir))
    /\ core_listing' = get_parquet_file_sizes(core_dir')
    /\ mvPc' = "processing"
    /\ UNCHANGED <<dry_run, min_size_bytes, overrides, new_dir, moved_to_review,
                   moved_to_core, skipped_files, logVars, batchVars, decision, syncVars, restVars>>

\* process_files, one iteration of the loop (in the listing's order, which
\* is the folder's): decide, move, record.
MoverProcess(key) ==
    /\ mvPc = "processing"
    /\ key \in DOMAIN new_listing
    /\ LET new_size == new_listing[key]
           core_size == IF key \in DOMAIN core_listing THEN Some(core_listing[key]) ELSE None
           d == DecideDestination(GetOverride(overrides, key), min_size_bytes, new_size, core_size)
       IN  IF d[1] = "review"
              THEN LET m == MoveFile(dry_run, key, new_size, new_dir, review_dir)
                   IN  /\ new_dir' = m.src
                       /\ review_dir' = m.dst
                       /\ core_dir' = core_dir
                       /\ moved_to_review' = Append(moved_to_review, <<key, d[2]>>)
                       /\ moved_to_core' = moved_to_core
              ELSE LET m == MoveFile(dry_run, key, new_size, new_dir, core_dir)
                   IN  /\ new_dir' = m.src
                       /\ core_dir' = m.dst
                       /\ review_dir' = review_dir
                       /\ moved_to_core' = Append(moved_to_core, key)
                       /\ moved_to_review' = moved_to_review
    /\ new_listing' = [k \in DOMAIN new_listing \ {key} |-> new_listing[k]]
    /\ UNCHANGED <<dry_run, min_size_bytes, overrides, skipped_files, mvPc,
                   core_listing, fsMark, logVars, batchVars, decision, syncVars, restVars>>

\* process_files, one iteration in which the move raises (the file is
\* locked, the target is not writable): the except branch records it.
MoverProcessFails(key) ==
    /\ mvPc = "processing"
    /\ key \in DOMAIN new_listing
    /\ ~dry_run
    /\ skipped_files' = Append(skipped_files, <<key, "move failed">>)
    /\ new_listing' = [k \in DOMAIN new_listing \ {key} |-> new_listing[k]]
    /\ UNCHANGED <<dry_run, min_size_bytes, overrides, new_dir, core_dir, review_dir,
                   moved_to_review, moved_to_core, mvPc, core_listing, fsMark,
                   logVars, batchVars, decision, syncVars, restVars>>

\* run(): print_summary, then both folders are opened in the file browser
\* when something went to review; a failing launch is recorded as skipped.
MoverFinish(explorerOk) ==
    /\ mvPc = "processing"
    /\ DOMAIN new_listing = {}
    /\ skipped_files' =
          IF moved_to_review # <<>> /\ ~explorerOk
             THEN skipped_files \o <<<<"review_dir", "could not open in explorer">>,
                                     <<"core_files_dir", "could not open in explorer">>>>
             ELSE skipped_files
    /\ mvPc' = "done"
    /\ UNCHANGED <<dry_run, min_size_bytes, overrides, new_dir, core_dir, review_dir,
                   moved_to_review, moved_to_core, new_listing, core_listing, fsMark,
                   logVars, batchVars, decision, syncVars, restVars>>

NextMover ==
    \/ MoverStart
    \/ \E key \in FileNames : MoverProcess(key)
    \/ \E key \in FileNames : MoverProcessFails(key)
    \/ \E explorerOk \in BOOLEAN : MoverFinish(explorerOk)

SpecMover == InitMover /\ [][NextMover]_vars

(***************************************************************************)
(* Properties of the file mover                                            *)
(***************************************************************************)
\* The folders as the run found them.
Found == fsMark[1]

\* What the run found for the listing key: the new file's size and the size
\* of the core file of the same name (in any case), if there is one.
FoundNewSize(key) == Found.new[CHOOSE n \in DOMAIN Found.new : Lower(n) = key]
FoundCoreNames(key) ==
    IF Found.core = None THEN {} ELSE {n \in DOMAIN Found.core[1] : Lower(n) = key}
FoundCoreSize(key) == Found.core[1][CHOOSE n \in FoundCoreNames(key) : TRUE]
FoundOverride(key) == IF key \in DOMAIN overrides THEN overrides[key] ELSE NoFlags

ReviewNames == {moved_to_review[i][1] : i \in DOMAIN moved_to_review}
CoreNames == {moved_to_core[i] : i \in DOMAIN moved_to_core}

\* The destination the stated precedence gives the file.
StatedDestination(key) ==
    LET ov == FoundOverride(key)
    IN  IF ov.force_review THEN "review"
        ELSE IF ov.force_core THEN "core"
        ELSE IF FoundNewSize(key) < min_size_bytes /\ ~ov.ignore_min_size THEN "review"
        ELSE IF /\ FoundCoreNames(key) # {}
                /\ FoundCoreSize(key) > 0
                /\ FoundNewSize(key) * SIZE_THRESHOLD_DEN < SIZE_THRESHOLD_NUM * FoundCoreSize(key)
                /\ ~ov.ignore_ratio
             THEN "review"
        ELSE "core"

\* C8: every file the run records went where the first applicable rule
\* sends it: force_review, then force_core, then the minimum size unless
\* ignore_min_size, then the size ratio against an existing non-empty core
\* file unless ignore_ratio, else core; overrides apply to the file name in
\* any case.  So a file with both force flags is in review, and a forced-core
\* file below the minimum size is in core.
C8_DecisionPrecedence ==
    fsMark # None =>
        /\ \A key \in ReviewNames : StatedDestination(key) = "review"
        /\ \A key \in CoreNames : StatedDestination(key) = "core"
        /\ \A key \in ReviewNames \cup CoreNames :
              LET ov == FoundOverride(key)
              IN  /\ ov.force_review /\ ov.force_core => key \in ReviewNames
                  /\ ov.force_core /\ ~ov.force_review /\ FoundNewSize(key) < min_size_bytes
                        => key \in CoreNames

\* A file stored as A.parquet, with both force flags set in its override and
\* sizes that pass both size rules, has been recorded as sent to review.
C8_Witness ==
    /\ fsMark # None
    /\ "A.parquet" \in DOMAIN Found.new
    /\ "a.parquet" \in DOMAIN overrides
    /\ overrides["a.parquet"].force_review
    /\ overrides["a.parquet"].force_core
    /\ Found.new["A.parquet"] >= min_size_bytes
    /\ FoundCoreNames("a.parquet") = {}
    /\ \E i \in DOMAIN moved_to_review :
          moved_to_review[i] = <<"a.parquet", "forced by override">>

\* C9: with no override, a 990-byte file against a 1000-byte core file is
\* recorded for core and a 989-byte one for review (the minimum size
\* permitting); a 5-byte file under a 10-byte minimum is recorded for
\* review whatever the core folder holds.
C9_ThresholdBoundary ==
    fsMark # None =>
        \A key \in ReviewNames \cup CoreNames :
            key \notin DOMAIN overrides =>
                /\ /\ FoundNewSize(key) = 990
                   /\ min_size_bytes <= 990
                   /\ FoundCoreNames(key) # {}
                   /\ FoundCoreSize(key) = 1000
                   => key \in CoreNames /\ key \notin ReviewNames
                /\ /\ FoundNewSize(key) = 989
                   /\ min_size_bytes <= 989
                   /\ FoundCoreNames(key) # {}
                   /\ FoundCoreSize(key) = 1000
                   => key \in ReviewNames /\ key \notin CoreNames
                /\ FoundNewSize(key) = 5 /\ min_size_bytes = 10
                   => key \in ReviewNames /\ key \notin CoreNames

\* A finished run without overrides and a 10-byte minimum: a 990-byte file
\* with a 1000-byte core file went to core, a 5-byte file with a 1000-byte
\* core file went to review.
C9_Witness ==
    /\ mvPc = "done"
    /\ DOMAIN overrides = {}
    /\ min_size_bytes = 10
    /\ Found.new = [n \in {"a.parquet", "b.parquet"} |-> IF n = "a.parquet" THEN 990 ELSE 5]
    /\ Found.core = Some([n \in {"a.parquet", "b.parquet"} |-> 1000])
    /\ moved_to_core = <<"a.parquet">>
    /\ moved_to_review = <<<<"b.parquet", "small file">>>>

\* The number of decisions recorded for the listing key.
Recorded(key) ==
    Cardinality({i \in DOMAIN moved_to_review : moved_to_review[i][1] = key})
      + Cardinality({i \in DOMAIN moved_to_core : moved_to_core[i] = key})

\* C10: a dry run leaves the three folders as it found them, a missing
\* folder still missing and every file in place with its size, and once it
\* has finished each new file has exactly one recorded decision, the one the
\* policy gives it.
C10_DryRunTouchesNothing ==
    dry_run /\ fsMark # None =>
        /\ new_dir = Found.new
        /\ core_dir = Found.core
        /\ review_dir = Found.review
        /\ mvPc = "done" =>
              \A n \in DOMAIN Found.new :
                  /\ Recorded(Lower(n)) = 1
                  /\ StatedDestination(Lower(n)) = "review" <=> Lower(n) \in ReviewNames

\* A finished dry run that found no review folder and recorded a file for
\* review and a file for core: the review folder is still missing.
C10_Witness ==
    /\ dry_run
    /\ mvPc = "done"
    /\ Found.review = None
    /\ review_dir = None
    /\ Found.core = None
    /\ core_dir = None
    /\ moved_to_review # <<>>
    /\ moved_to_core # <<>>
    /\ DOMAIN new_dir = {"A.parquet", "b.parquet"}

(***************************************************************************)
(* ABA routing-number scraper (achitect/scraper.py)                        *)
(*                                                                         *)
(* A text is the sequence of its characters.                               *)
(***************************************************************************)
MaxCsvRows == 2     \* data rows of the CSV file

DigitChars == {"0", "1", "2", "3", "4", "5", "6", "7", "8", "9"}

\* str.zfill(9) and \d{9}
RTN_WIDTH == 9

\* The cell texts a CSV file is given: empty, "123", "12a3b", "000000123",
\* "123456789", "1234567890" and "x".
CsvTexts ==
    { <<>>,
      <<"1", "2", "3">>,
      <<"1", "2", "a", "3", "b">>,
      <<"0", "0", "0", "0", "0", "0", "1", "2", "3">>,
      <<"1", "2", "3", "4", "5", "6", "7", "8", "9">>,
      <<"1", "2", "3", "4", "5", "6", "7", "8", "9", "0">>,
      <<"x">> }

CsvColumns == UNION {[1..n -> CsvTexts] : n \in 0..MaxCsvRows}

\* pd.read_csv(dtype=str) followed by .astype(str): an empty cell is read as
\* NaN, which astype(str) turns into the text "nan"; any other cell keeps
\* its text.
ReadCell(text) == IF text = <<>> THEN <<"n", "a", "n">> ELSE text

\* .str.replace(r"\D", "", regex=True)
IsDigit(c) == c \in DigitChars
StripNonDigits(text) == SelectSeq(text, IsDigit)

\* .str.zfill(9) on a text without a sign
ZFill(text, width) ==
    IF Len(text) >= width THEN text
    ELSE [i \in 1..(width - Len(text)) |-> "0"] \o text

\* .str.fullmatch(r"\d{9}")
FullMatchDigits(text, width) ==
    Len(text) = width /\ \A i \in 1..Len(text) : text[i] \in DigitChars

\* ser.fillna("").str.replace(r"\D", "").str.zfill(9) for one value; fillna
\* finds nothing to fill after astype(str).
Clean(text) == ZFill(StripNonDigits(text), RTN_WIDTH)

IsValidRtn(text) == FullMatchDigits(text, RTN_WIDTH)

\* pd.unique: first occurrences, in order.
RECURSIVE Unique(_)
Unique(seq) ==
    IF seq = <<>> THEN <<>>
    ELSE LET init == Unique(SubSeq(seq, 1, Len(seq) - 1))
             last == seq[Len(seq)]
         IN  IF \E i \in 1..Len(init) : init[i] = last THEN init ELSE Append(init, last)

\* load_aba_numbers_from_csv on the texts of the routing-number column.
load_aba_numbers_from_csv(column) ==
    LET cleaned == [i \in 1..Len(column) |-> Clean(ReadCell(column[i]))]
    IN  Unique(SelectSeq(cleaned, IsValidRtn))

\* main() before line 450: a CSV file is in place, nothing has been read.
InitLoad ==
    /\ csv_column \in CsvColumns
    /\ aba_numbers = <<>>
    /\ scrPc = "start"
    /\ ach_rows = <<>>
    /\ wire_rows = <<>>
    /\ fail_rows = <<>>
    /\ processed = <<>>
    /\ ach_table = {}
    /\ wire_table = {}
    /\ fail_table = <<>>
    /\ dbMark = None
    /\ IdleButScraper

\* main(), lines 450-452: the routing numbers are loaded.
LoadCsv ==
    /\ scrPc = "start"
    /\ aba_numbers' = load_aba_numbers_from_csv(csv_column)
    /\ scrPc' = "loaded"
    /\ UNCHANGED <<csv_column, ach_rows, wire_rows, fail_rows, processed, ach_table,
                   wire_table, fail_table, dbMark, notScraper>>

NextLoad == LoadCsv

SpecLoad == InitLoad /\ [][NextLoad]_vars

(***************************************************************************)
(* Properties of routing-number loading                                    *)
(***************************************************************************)
Elements(seq) == {seq[i] : i \in 1..Len(seq)}

\* C12: the loaded list holds exactly the values obtained from the
\* non-empty cells by stripping the non-digits and left-padding with zeros
\* to 9 characters that are then 9 digits long; normalising a loaded value
\* again returns it; "123" and "12a3b" load as "000000123"; a cell with
\* more than 9 digits and an empty cell contribute nothing.
C12_LoadNormalises ==
    scrPc = "loaded" =>
        /\ Elements(aba_numbers) =
              {ZFill(StripNonDigits(t), 9) :
                  t \in {c \in Elements(csv_column) :
                            c # <<>> /\ Len(StripNonDigits(c)) <= 9}}
        /\ \A r \in Elements(aba_numbers) : ZFill(StripNonDigits(r), 9) = r
        /\ \A c \in Elements(csv_column) :
              c \in {<<"1", "2", "3">>, <<"1", "2", "a", "3", "b">>}
                 => <<"0", "0", "0", "0", "0", "0", "1", "2", "3">> \in Elements(aba_numbers)
        /\ (\A c \in Elements(csv_column) : c = <<>> \/ Len(StripNonDigits(c)) > 9)
              => aba_numbers = <<>>

(***************************************************************************)
(* The scraping run: main() from line 453 on                               *)
(***************************************************************************)
\* The routing numbers a CSV file can load.
RoutingNumbers == UNION {Elements(load_aba_numbers_from_csv(col)) : col \in CsvColumns}

\* What session.get and the site answer for one routing number: no body
\* with the status of the response (0 when the request itself failed), or
\* a page with its FedACH and Fedwire names, None for a missing section;
\* broken marks a page on which parsing raises.
Responses ==
    { [body |-> FALSE, status |-> 404, ach |-> None, wire |-> None, broken |-> FALSE],
      [body |-> FALSE, status |-> 0, ach |-> None, wire |-> None, broken |-> FALSE],
      [body |-> TRUE, status |-> 200, ach |-> None, wire |-> None, broken |-> FALSE],
      [body |-> TRUE, status |-> 200, ach |-> None, wire |-> None, broken |-> TRUE],
      [body |-> TRUE, status |-> 200, ach |-> Some("First Bank"), wire |-> Some("First Bank"),
       broken |-> FALSE],
      [body |-> TRUE, status |-> 200, ach |-> Some("Second Bank"), wire |-> None,
       broken |-> FALSE] }

\* The exception a broken page raises in parse_detail_page.
ParseError == [kind |-> "AttributeError", message |-> "'NoneType' object has no attribute 'split'"]

\* normalize_ach_row / normalize_wire_row: d.get("Name") is None for a
\* section that was not found; scraped_at is the time of the run, "now" for
\* this run and "earlier" for the runs before it.
normalize_ach_row(rn, name, at) == [routing_number |-> rn, bank_name |-> name, scraped_at |-> at]
normalize_wire_row(rn, name, at) == [routing_number |-> rn, bank_name |-> name, scraped_at |-> at]

\* The rows appended to fail_rows.
FailRow_AlwaysFail(rn, status, level, error_type, error_message) ==
    [routing_number |-> rn,
     http_status |-> IF status = 0 THEN None ELSE Some(status),
     level |-> "FAIL", error_type |-> error_type, error_message |-> error_message]

FailRow(rn, status, level, error_type, error_message) ==
    [routing_number |-> rn,
     http_status |-> IF status = 0 THEN None ELSE Some(status),
     level |-> level, error_type |-> error_type, error_message |-> error_message]

\* merge_into_duckdb: INSERT ... ON CONFLICT (routing_number) DO UPDATE SET
\* every other column; nothing for an empty frame.
Merge_KeepFirst(table, df) ==
    table \cup {r \in Elements(df) : \A t \in table : t.routing_number # r.routing_number}

merge_into_duckdb(table, df) ==
    IF df = <<>> THEN table
    ELSE {t \in table : \A r \in Elements(df) : r.routing_number # t.routing_number}
            \cup Elements(df)

\* What earlier runs left in the database for one routing number: nothing,
\* both rows, or a FedACH row with an all-NULL Fedwire row.
Leftovers == {"none", "both", "ach_only"}
LeftAch(rn, left) ==
    IF left = "none" THEN {}
    ELSE {normalize_ach_row(rn, Some(IF left = "both" THEN "First Bank" ELSE "Old Bank"), "earlier")}
LeftWire(rn, left) ==
    IF left = "none" THEN {}
    ELSE {normalize_wire_row(rn, IF left = "both" THEN Some("First Bank") ELSE None, "earlier")}

InitScraper ==
    /\ csv_column = <<>>
    /\ aba_numbers \in {load_aba_numbers_from_csv(col) : col \in CsvColumns}
    /\ scrPc = "loaded"
    /\ ach_rows = <<>>
    /\ wire_rows = <<>>
    /\ fail_rows = <<>>
    /\ processed = <<>>
    /\ \E left \in [RoutingNumbers -> Leftovers] :
          /\ ach_table = UNION {LeftAch(rn, left[rn]) : rn \in RoutingNumbers}
          /\ wire_table = UNION {LeftWire(rn, left[rn]) : rn \in RoutingNumbers}
    /\ fail_table = <<>>
    /\ dbMark = None
    /\ IdleButScraper

\* main(), lines 453-455: nothing was loaded, the run ends.
NothingLoaded ==
    /\ scrPc = "loaded"
    /\ aba_numbers = <<>>
    /\ scrPc' = "done"
    /\ UNCHANGED <<csv_column, aba_numbers, ach_rows, wire_rows, fail_rows, processed,
                   ach_table, wire_table, fail_table, dbMark, notScraper>>

\* main(), lines 457-461: the session and the three lists.
StartLoop ==
    /\ scrPc = "loaded"
    /\ aba_numbers # <<>>
    /\ scrPc' = "loop"
    /\ UNCHANGED <<csv_column, aba_numbers, ach_rows, wire_rows, fail_rows, processed,
                   ach_table, wire_table, fail_table, dbMark, notScraper>>

\* main(), lines 463-520: one iteration of the loop, for the next routing
\* number and the response it gets.
ScrapeOne(resp) ==
    /\ scrPc = "loop"
    /\ Len(processed) < Len(aba_numbers)
    /\ LET rn == aba_numbers[Len(processed) + 1]
       IN  IF ~resp.body
              THEN /\ fail_rows' = Append(fail_rows,
                         IF resp.status # 0
                            THEN FailRow(rn, resp.status, "FAIL", "HTTPError", "status")
                            ELSE FailRow(rn, resp.status, "FAIL", "RequestException",
                                         "request failed"))
                   /\ UNCHANGED <<ach_rows, wire_rows>>
           ELSE IF resp.broken
              THEN /\ fail_rows' = Append(fail_rows,
                         FailRow(rn, resp.status, "FAIL", ParseError.kind, ParseError.message))
                   /\ UNCHANGED <<ach_rows, wire_rows>>
           ELSE IF resp.ach = None /\ resp.wire = None
              THEN /\ fail_rows' = Append(fail_rows,
                         FailRow(rn, resp.status, "WARN", "MissingContent",
                                 "no FedACH or Fedwire section found"))
                   /\ UNCHANGED <<ach_rows, wire_rows>>
           ELSE /\ ach_rows' = Append(ach_rows, normalize_ach_row(rn, resp.ach, "now"))
                /\ wire_rows' = Append(wire_rows, normalize_wire_row(rn, resp.wire, "now"))
                /\ UNCHANGED fail_rows
    /\ processed' = Append(processed, resp)
    /\ UNCHANGED <<csv_column, aba_numbers, scrPc, ach_table, wire_table, fail_table,
                   dbMark, notScraper>>

\* main(), lines 522-537: the loop is over; the frames are merged into the
\* two directory tables and the failures appended.
Persist ==
    /\ scrPc = "loop"
    /\ Len(processed) = Len(aba_numbers)
    /\ dbMark' = Some([ach |-> ach_table, wire |-> wire_table])
    /\ ach_table' = merge_into_duckdb(ach_table, ach_rows)
    /\ wire_table' = merge_into_duckdb(wire_table, wire_rows)
    /\ fail_table' = fail_table \o fail_rows
    /\ scrPc' = "done"
    /\ UNCHANGED <<csv_column, aba_numbers, ach_rows, wire_rows, fail_rows, processed,
                   notScraper>>

NextScraper ==
    \/ NothingLoaded
    \/ StartLoop
    \/ \E resp \in Responses : ScrapeOne(resp)
    \/ Persist

SpecScraper == InitScraper /\ [][NextScraper]_vars

(***************************************************************************)
(* Properties of the scraping run                                          *)
(***************************************************************************)
KeysOf(rows) == {r.routing_number : r \in rows}

\* The table is the upsert of the frame into what the table held before.
IsUpsert(after, before, df) ==
    /\ \A r1, r2 \in after : r1.routing_number = r2.routing_number => r1 = r2
    /\ \A r \in Elements(df) : r \in after
    /\ \A t \in before : t.routing_number \notin KeysOf(Elements(df)) => t \in after
    /\ KeysOf(after) = KeysOf(before) \cup KeysOf(Elements(df))
    /\ df = <<>> => after = before
    /\ merge_into_duckdb(after, df) = after

\* C11: after the run has merged its frames, each directory table holds at
\* most one row per routing number; a routing number of the frame has the
\* frame's row, every other row is as it was, an empty frame changes
\* nothing, and merging the same frame once more changes nothing.
C11_MergeUpserts ==
    scrPc = "done" /\ dbMark # None =>
        /\ IsUpsert(ach_table, dbMark[1].ach, ach_rows)
        /\ IsUpsert(wire_table, dbMark[1].wire, wire_rows)

\* A finished run that replaced the FedACH row an earlier run had stored
\* for one routing number and left the row of another routing number alone.
C11_Witness ==
    /\ scrPc = "done"
    /\ dbMark # None
    /\ \E old \in dbMark[1].ach : \E new \in ach_table :
          /\ old.routing_number = new.routing_number
          /\ old.bank_name # new.bank_name
          /\ old.scraped_at = "earlier" /\ new.scraped_at = "now"
          /\ new \in Elements(ach_rows)
    /\ \E t \in dbMark[1].ach : t \in ach_table /\ t.routing_number \notin KeysOf(Elements(ach_rows))

\* The record the i-th handled routing number must have left behind.
FailRowsFor(rn) == SelectSeq(fail_rows, LAMBDA r : r.routing_number = rn)
AchRowsFor(rn) == SelectSeq(ach_rows, LAMBDA r : r.routing_number = rn)
WireRowsFor(rn) == SelectSeq(wire_rows, LAMBDA r : r.routing_number = rn)

RecordedAsStated(i) ==
    LET rn == aba_numbers[i]
        resp == processed[i]
        fails == FailRowsFor(rn)
    IN  IF ~resp.body
           THEN /\ Len(fails) = 1
                /\ fails[1].level = "FAIL"
                /\ fails[1].error_type =
                      IF resp.status # 0 THEN "HTTPError" ELSE "RequestException"
                /\ AchRowsFor(rn) = <<>> /\ WireRowsFor(rn) = <<>>
        ELSE IF resp.broken
           THEN /\ Len(fails) = 1
                /\ fails[1].level = "FAIL"
                /\ fails[1].error_type = ParseError.kind
                /\ fails[1].error_message = ParseError.message
        ELSE IF resp.ach = None /\ resp.wire = None
           THEN /\ Len(fails) = 1
                /\ fails[1].level = "WARN"
                /\ fails[1].error_type = "MissingContent"
                /\ AchRowsFor(rn) = <<>> /\ WireRowsFor(rn) = <<>>
        ELSE /\ fails = <<>>
             /\ Len(AchRowsFor(rn)) = 1 /\ Len(WireRowsFor(rn)) = 1

\* The position of a routing number in the loaded list.
PositionOf(rn) == CHOOSE i \in 1..Len(aba_numbers) : aba_numbers[i] = rn

InInputOrder(rows) ==
    \A j, k \in 1..Len(rows) :
        j < k => PositionOf(rows[j].routing_number) < PositionOf(rows[k].routing_number)

\* C13: every routing number the loop has handled left exactly the record
\* its response calls for (one FAIL, HTTPError or RequestException, for an
\* absent body; one WARN MissingContent for a page without sections; one
\* FAIL with the exception's kind and message for a page that does not
\* parse; one row in each frame otherwise), the records are in input order,
\* and the run does not reach its end before every loaded routing number
\* has been handled.
C13_LoopProcessesAll ==
    /\ \A i \in 1..Len(processed) : RecordedAsStated(i)
    /\ Len(fail_rows) + Len(ach_rows) = Len(processed)
    /\ InInputOrder(fail_rows) /\ InInputOrder(ach_rows) /\ InInputOrder(wire_rows)
    /\ scrPc = "done" => Len(processed) = Len(aba_numbers)

\* A finished run of two routing numbers: the request for the first failed,
\* the page of the second did not parse, both left their FAIL, and the
\* failures were stored.
C13_Witness ==
    /\ scrPc = "done"
    /\ Len(aba_numbers) = 2
    /\ Len(processed) = 2
    /\ ~processed[1].body /\ processed[1].status = 0
    /\ processed[2].broken
    /\ Len(fail_rows) = 2
    /\ fail_rows[1].error_type = "RequestException"
    /\ fail_rows[2].error_type = "AttributeError"
    /\ fail_table = fail_rows

(***************************************************************************)
(* Tableau job polling (tableau_ops/orchestrator.py: check_job_status;     *)
(* tableau_ops/test_file.py: _check_job_success, _wait_for_job)            *)
(*                                                                         *)
(* The three loops differ only in the seconds they sleep.  A job on the    *)
(* server has a finish code, None while it has none, and may have a        *)
(* completion timestamp.  The code compares finish_code with the text "0"  *)
(* and tests it for truth; the model gives the job the values that         *)
(* reading assumes: None, "0", or the text of another code.               *)
(***************************************************************************)
MaxJitter == 1                  \* extra seconds one poll and sleep may take

DEFAULT_TIMEOUT == 600          \* timeout: int = 600
CLIENT_SLEEP == 10              \* time.sleep(10) of check_job_status
PUBLISH_SLEEP == 5              \* time.sleep(5) of _wait_for_job

Timeouts == {0, 20, DEFAULT_TIMEOUT}
FinishCodes == {None, Some("0"), Some("1"), Some("2")}
JobStates == [finish_code : FinishCodes, completed_at : BOOLEAN]
RunningJob == [finish_code |-> None, completed_at |-> FALSE]

\* One pass through the loop body for the job as fetched, elapsed seconds
\* after the start: TRUE or FALSE when it returns, "sleep" when it goes on.
CheckJob_TimeoutSucceeds(j, elapsed, timeout) ==
    IF j.finish_code = Some("0") /\ j.completed_at THEN Some(TRUE)
    ELSE IF j.finish_code # None /\ j.finish_code # Some("0") THEN Some(FALSE)
    ELSE IF elapsed > timeout THEN Some(TRUE)
    ELSE None

CheckJob(j, elapsed, timeout) ==
    IF j.finish_code = Some("0") /\ j.completed_at THEN Some(TRUE)
    ELSE IF j.finish_code # None /\ j.finish_code # Some("0") THEN Some(FALSE)
    ELSE IF elapsed > timeout THEN Some(FALSE)
    ELSE None

InitPoll ==
    /\ poll_sleep \in {CLIENT_SLEEP, PUBLISH_SLEEP}
    /\ poll_timeout \in Timeouts
    /\ poll_now = 0
    /\ poll_start = 0
    /\ poll_job = Some(RunningJob)
    /\ pollPc = "polling"
    /\ poll_result = None
    /\ poll_last = None
    /\ IdleButPoll

\* The job moves on at the server: it gets its finish code and its
\* completion timestamp, together or one after the other.
JobProgress(next) ==
    /\ pollPc \in {"polling", "sleeping"}
    /\ poll_job[1].finish_code = None \/ ~poll_job[1].completed_at
    /\ poll_job[1].finish_code # None => next.finish_code = poll_job[1].finish_code
    /\ poll_job[1].completed_at => next.completed_at
    /\ next # poll_job[1]
    /\ poll_job' = Some(next)
    /\ UNCHANGED <<poll_sleep, poll_timeout, poll_now, poll_start, pollPc, poll_result,
                   poll_last, notPoll>>

\* One pass of the loop: jobs.get_by_id, the two tests on the job, the
\* timeout test.
Poll ==
    /\ pollPc = "polling"
    /\ LET elapsed == poll_now - poll_start
           r == CheckJob(poll_job[1], elapsed, poll_timeout)
       IN  /\ poll_last' = Some([job |-> poll_job[1], elapsed |-> elapsed])
           /\ IF r = None
                 THEN pollPc' = "sleeping" /\ poll_result' = poll_result
                 ELSE pollPc' = "returned" /\ poll_result' = r
    /\ UNCHANGED <<poll_sleep, poll_timeout, poll_now, poll_start, poll_job, notPoll>>

\* jobs.get_by_id raises: the exception leaves the loop.
PollRaises ==
    /\ pollPc = "polling"
    /\ pollPc' = "raised"
    /\ UNCHANGED <<poll_sleep, poll_timeout, poll_now, poll_start, poll_job, poll_result,
                   poll_last, notPoll>>

\* time.sleep(...) returns, and with it the time the pass itself took.
Sleep(jitter) ==
    /\ pollPc = "sleeping"
    /\ poll_now' = poll_now + poll_sleep + jitter
    /\ pollPc' = "polling"
    /\ UNCHANGED <<poll_sleep, poll_timeout, poll_start, poll_job, poll_result, poll_last,
                   notPoll>>

NextPoll ==
    \/ \E next \in JobStates : JobProgress(next)
    \/ Poll
    \/ PollRaises
    \/ \E jitter \in 0..MaxJitter : Sleep(jitter)

\* The interpreter keeps running the loop: a pass or a sleep that can be
\* taken is taken.
SpecPoll == InitPoll /\ [][NextPoll]_vars /\ WF_vars(Poll \/ PollRaises) /\ WF_vars(\E jitter \in 0..MaxJitter : Sleep(jitter))

(***************************************************************************)
(* Properties of the polling loops                                         *)
(***************************************************************************)
SawSuccess(o) == o.job.finish_code = Some("0") /\ o.job.completed_at
SawFailure(o) == o.job.finish_code # None /\ o.job.finish_code # Some("0")

PollClassifies ==
    /\ pollPc = "returned" /\ poll_result = Some(TRUE) => SawSuccess(poll_last[1])
    /\ poll_last # None /\ SawSuccess(poll_last[1])
          => pollPc = "returned" /\ poll_result = Some(TRUE)
    /\ poll_last # None /\ SawFailure(poll_last[1])
          => pollPc = "returned" /\ poll_result = Some(FALSE)
    /\ poll_last # None /\ poll_last[1].elapsed > poll_timeout
          => /\ pollPc = "returned"
             /\ ~SawSuccess(poll_last[1]) => poll_result = Some(FALSE)
    /\ pollPc = "returned" /\ poll_result = Some(FALSE)
          => SawFailure(poll_last[1]) \/ poll_last[1].elapsed > poll_timeout

MaxRetries == 2     \* largest configured retry count
MaxCalls == 2       \* manager methods called inside one scope

tabConfig == <<program, smtp, retries, user_dry_run>>
tabSession == <<token, sessions, signIns, signOuts, scope>>
tabRefresh == <<attempt, jobs, sleeps, attempts_log, result, refresh_end>>
tabUsers == <<site_users, group_members, summary, userAdds, groupAdds, calls, last_call>>

\* The smtp section: switched off, complete, or switched on without its
\* "sender" entry.
SmtpConfigs == {"disabled", "enabled", "incomplete"}

\* server.auth.sign_out(): the client's session ends at the site; nothing
\* is sent when the client holds no token.
SignOut(tok, sess) == IF tok = None THEN sess ELSE sess \ {tok[1]}

\* server.auth.sign_in(auth) returning.
SignedIn ==
    /\ token' = Some(signIns + 1)
    /\ sessions' = {signIns + 1}
    /\ signIns' = signIns + 1

\* __exit__ of the client or the manager.
LeaveScope ==
    /\ token' = None
    /\ sessions' = SignOut(token, sessions)
    /\ signOuts' = IF token = None THEN signOuts ELSE signOuts + 1
    /\ signIns' = signIns
    /\ scope' = "left"

\* send_notification: "noop" when smtp is not enabled, "raise" when the
\* message cannot be built (lines 455-458, outside the try), else "sent" or,
\* for a failure inside the try, "logged".
send_notification(cfg, delivered) ==
    IF cfg = "disabled" THEN "noop"
    ELSE IF cfg = "incomplete" THEN "raise"
    ELSE IF delivered THEN "sent" ELSE "logged"

\* refresh_and_validate: if attempt == retries: raise
ReRaise_Always(att, n) == TRUE

ReRaise(att, n) == att = n

\* How one attempt of refresh_and_validate can end.
AttemptOutcomes == {"completed", "not_completed", "trigger_raised", "poll_raised"}
Raising(outcome) == outcome \in {"trigger_raised", "poll_raised"}

NoResult == [success |-> FALSE, attempts |-> 0, completed |-> FALSE, error |-> FALSE]

NoSummary ==
    [added_users |-> <<>>, already_existing_users |-> <<>>, added_to_group |-> <<>>,
     already_in_group |-> <<>>, errors |-> <<>>]

\* The site of the user manager: one user, stored as Ann@x.com, may exist;
\* the group Ninja exists and may have her as a member.
Emails == {"ann@x.com", "bob@x.com"}
GroupNames == {"Ninja", "Ghosts"}
LowerName(name) == IF name = "Ann@x.com" THEN "ann@x.com" ELSE name

InitTableau ==
    /\ program \in {"orchestrator", "users"}
    /\ tabPc = "start"
    /\ smtp \in SmtpConfigs
    /\ retries \in 0..MaxRetries
    /\ token = None
    /\ sessions = {}
    /\ signIns = 0
    /\ signOuts = 0
    /\ scope = "before"
    /\ steps = <<>>
    /\ attempt = 0
    /\ jobs = 0
    /\ sleeps = 0
    /\ attempts_log = <<>>
    /\ result = None
    /\ refresh_end = "none"
    /\ notifications = <<>>
    /\ caught = 0
    /\ runEnd = "running"
    /\ user_dry_run \in BOOLEAN
    /\ site_users \in {{}, {"Ann@x.com"}}
    /\ \E members \in SUBSET site_users : group_members = [g \in {"Ninja"} |-> members]
    /\ summary = NoSummary
    /\ userAdds = 0
    /\ groupAdds = 0
    /\ calls = 0
    /\ last_call = None
    /\ program = "orchestrator" =>
          /\ ~user_dry_run
          /\ site_users = {}
    /\ program = "users" => smtp = "disabled" /\ retries = 0
    /\ IdleButTableau

\* run(), line 484: TableauCloudClient(...).__enter__ signs in; a failing
\* sign-in is an exception inside the try block.
Enter(ok) ==
    /\ program = "orchestrator" /\ tabPc = "start"
    /\ IF ok
          THEN /\ SignedIn
               /\ scope' = "inside"
               /\ tabPc' = "publish"
               /\ UNCHANGED signOuts
          ELSE /\ tabPc' = "handler"
               /\ UNCHANGED tabSession
    /\ UNCHANGED <<tabConfig, steps, tabRefresh, notifications, caught, runEnd, tabUsers,
                   notTableau>>

\* run(), lines 485-493: upload_extract returns the published data source,
\* or raises (project or data source not found, invalid hyper file, failed
\* publish) and the exception leaves the with block.
Publish(ok) ==
    /\ program = "orchestrator" /\ tabPc = "publish"
    /\ IF ok
          THEN /\ steps' = Append(steps, "publish")
               /\ tabPc' = "refresh"
               /\ UNCHANGED tabSession
          ELSE /\ LeaveScope
               /\ tabPc' = "handler"
               /\ UNCHANGED steps
    /\ UNCHANGED <<tabConfig, tabRefresh, notifications, caught, runEnd, tabUsers, notTableau>>

\* refresh_and_validate, lines 418-428: the lookups and the initial result;
\* a project that is not found makes project.id raise.
RefreshBegin(ok) ==
    /\ program = "orchestrator" /\ tabPc = "refresh"
    /\ IF ok
          THEN /\ result' = Some(NoResult)
               /\ IF retries = 0
                     THEN /\ refresh_end' = "returned"
                          /\ steps' = Append(steps, "refresh")
                          /\ tabPc' = "notify"
                     ELSE /\ refresh_end' = refresh_end
                          /\ steps' = steps
                          /\ tabPc' = "attempt"
               /\ UNCHANGED tabSession
          ELSE /\ refresh_end' = "raised"
               /\ LeaveScope
               /\ tabPc' = "handler"
               /\ UNCHANGED <<result, steps>>
    /\ UNCHANGED <<tabConfig, attempt, jobs, sleeps, attempts_log, notifications, caught,
                   runEnd, tabUsers, notTableau>>

\* refresh_and_validate, lines 429-444: one pass of the for loop.
Attempt(outcome) ==
    /\ program = "orchestrator" /\ tabPc = "attempt"
    /\ attempt < retries
    /\ attempt' = attempt + 1
    /\ attempts_log' = Append(attempts_log, outcome)
    /\ jobs' = IF outcome = "trigger_raised" THEN jobs ELSE jobs + 1
    /\ result' = Some([success |-> outcome = "completed",
                       attempts |-> attempt + 1,
                       completed |-> IF Raising(outcome) THEN result[1].completed
                                     ELSE outcome = "completed",
                       error |-> result[1].error \/ Raising(outcome)])
    /\ IF outcome = "completed"
          THEN /\ refresh_end' = "returned"
               /\ steps' = Append(steps, "refresh")
               /\ tabPc' = "notify"
               /\ UNCHANGED <<sleeps, tabSession>>
       ELSE IF Raising(outcome) /\ ReRaise(attempt + 1, retries)
          THEN /\ refresh_end' = "raised"
               /\ LeaveScope
               /\ tabPc' = "handler"
               /\ UNCHANGED <<sleeps, steps>>
       ELSE IF attempt + 1 = retries
          THEN /\ refresh_end' = "returned"
               /\ steps' = Append(steps, "refresh")
               /\ tabPc' = "notify"
               /\ UNCHANGED <<sleeps, tabSession>>
       ELSE /\ sleeps' = IF Raising(outcome) THEN sleeps + 1 ELSE sleeps
            /\ UNCHANGED <<refresh_end, steps, tabPc, tabSession>>
    /\ UNCHANGED <<tabConfig, notifications, caught, runEnd, tabUsers, notTableau>>

\* run(), lines 498-513: the notification of the outcome, then the end of
\* the with block and of run(); an exception of send_notification leaves
\* the with block for the except block.
Notify(delivered) ==
    /\ program = "orchestrator" /\ tabPc = "notify"
    /\ LET status == IF result[1].success THEN "SUCCESS" ELSE "FAILURE"
           sent == send_notification(smtp, delivered)
       IN  /\ notifications' = IF sent \in {"sent", "logged"}
                                  THEN Append(notifications, <<status, sent>>)
                                  ELSE notifications
           /\ IF sent = "raise"
                 THEN /\ tabPc' = "handler"
                      /\ UNCHANGED <<steps, runEnd>>
                 ELSE /\ steps' = Append(steps, "notify")
                      /\ tabPc' = "done"
                      /\ runEnd' = "returned"
    /\ LeaveScope
    /\ UNCHANGED <<tabConfig, tabRefresh, caught, tabUsers, notTableau>>

\* run(), lines 514-528: the except block.
Handler(delivered) ==
    /\ program = "orchestrator" /\ tabPc = "handler"
    /\ caught' = caught + 1
    /\ LET sent == send_notification(smtp, delivered)
       IN  /\ notifications' = IF sent \in {"sent", "logged"}
                                  THEN Append(notifications, <<"FAILURE", sent>>)
                                  ELSE notifications
           /\ runEnd' = IF sent = "raise" THEN "raised" ELSE "returned"
    /\ tabPc' = "done"
    /\ UNCHANGED <<tabConfig, tabSession, steps, tabRefresh, tabUsers, notTableau>>

\* ---- TableauUserManager ----

\* next(u for u in all_users if u.name.lower() == user_email.lower())
ExistingUser(users, email) == {u \in users : LowerName(u) = LowerName(email)}

Grow(summ, bucket, entry) == [summ EXCEPT ![bucket] = Append(@, entry)]

\* add_user_and_assign_group, lines 81-87: the dry-run branch.
DryRun(email, group, users, members, summ) ==
    LET s1 == IF ExistingUser(users, email) # {}
                 THEN Grow(summ, "already_existing_users", email)
                 ELSE Grow(summ, "added_users", email)
    IN  [summary |-> Grow(s1, "added_to_group", <<email, group>>),
         users |-> users, members |-> members, userAdds |-> 0, groupAdds |-> 0,
         lookups |-> {"user"}]

\* add_user_and_assign_group, lines 89-111: the real run, with the except
\* block that records a group that is not found.
RealRun(email, group, users, members, summ) ==
    LET found == ExistingUser(users, email)
        user == IF found # {} THEN CHOOSE u \in found : TRUE ELSE email
        s1 == IF found # {} THEN Grow(summ, "already_existing_users", user)
              ELSE Grow(summ, "added_users", user)
        users1 == users \cup {user}
        adds == IF found # {} THEN 0 ELSE 1
    IN  IF group \notin DOMAIN members
           THEN [summary |-> Grow(s1, "errors", email),
                 users |-> users1, members |-> members, userAdds |-> adds, groupAdds |-> 0,
                 lookups |-> {"user", "group"}]
        ELSE IF user \in members[group]
           THEN [summary |-> Grow(s1, "already_in_group", <<user, group>>),
                 users |-> users1, members |-> members, userAdds |-> adds, groupAdds |-> 0,
                 lookups |-> {"user", "group", "membership"}]
        ELSE [summary |-> Grow(s1, "added_to_group", <<user, group>>),
              users |-> users1,
              members |-> [members EXCEPT ![group] = @ \cup {user}],
              userAdds |-> adds, groupAdds |-> 1,
              lookups |-> {"user", "group", "membership"}]

add_user_and_assign_group(dry, email, group, users, members, summ) ==
    IF dry THEN DryRun(email, group, users, members, summ)
    ELSE RealRun(email, group, users, members, summ)

\* with self.server.auth.sign_in(self.auth): ... inside a method of the
\* manager.  The client replaces the token it holds; whether the site ends
\* the session of the replaced token is the site's choice.  Leaving the
\* with block signs the new session out.
NestedSignIn ==
    /\ signIns' = signIns + 1
    /\ signOuts' = signOuts + 1
    /\ token' = None
    /\ sessions' \in {{}, sessions}
    /\ scope' = scope

\* with TableauUserManager(...) as manager, lines 68-70.
UserEnter(ok) ==
    /\ program = "users" /\ tabPc = "start"
    /\ IF ok
          THEN /\ SignedIn
               /\ scope' = "inside"
               /\ tabPc' = "body"
               /\ UNCHANGED <<signOuts, runEnd>>
          ELSE /\ tabPc' = "done"
               /\ runEnd' = "raised"
               /\ UNCHANGED tabSession
    /\ UNCHANGED <<tabConfig, steps, tabRefresh, notifications, caught, tabUsers, notTableau>>

\* manager.add_user_and_assign_group(email, group), lines 75-111; a failing
\* sign-in is recorded by the except block.
UserAdd(email, group, signs_in) ==
    /\ program = "users" /\ tabPc = "body"
    /\ calls < MaxCalls
    /\ calls' = calls + 1
    /\ last_call' = Some([email |-> email, group |-> group, signed_in |-> signs_in,
                          users |-> site_users, members |-> group_members,
                          summary |-> summary,
                          lookups |-> IF signs_in
                                         THEN add_user_and_assign_group(
                                                  user_dry_run, email, group, site_users,
                                                  group_members, summary).lookups
                                         ELSE {}])
    /\ IF signs_in
          THEN LET out == add_user_and_assign_group(user_dry_run, email, group, site_users,
                                                    group_members, summary)
               IN  /\ summary' = out.summary
                   /\ site_users' = out.users
                   /\ group_members' = out.members
                   /\ userAdds' = userAdds + out.userAdds
                   /\ groupAdds' = groupAdds + out.groupAdds
                   /\ NestedSignIn
          ELSE /\ summary' = Grow(summary, "errors", email)
               /\ UNCHANGED <<site_users, group_members, userAdds, groupAdds, tabSession>>
    /\ UNCHANGED <<tabConfig, tabPc, steps, tabRefresh, notifications, caught, runEnd,
                   notTableau>>

\* manager.get_all_user_metadata(), lines 133-162: no except block, so an
\* exception of a listing leaves the method and the scope of the manager.
UserMetadata(ok) ==
    /\ program = "users" /\ tabPc = "body"
    /\ calls < MaxCalls
    /\ calls' = calls + 1
    /\ NestedSignIn
    /\ IF ok
          THEN UNCHANGED <<tabPc, runEnd>>
          ELSE /\ tabPc' = "exit"
               /\ runEnd' = "raising"
    /\ UNCHANGED <<tabConfig, steps, tabRefresh, notifications, caught, site_users,
                   group_members, summary, userAdds, groupAdds, last_call, notTableau>>

\* __exit__, lines 72-73, at the end of the body or with the exception
\* that leaves it.
UserExit ==
    /\ program = "users" /\ tabPc \in {"body", "exit"}
    /\ LeaveScope
    /\ tabPc' = "done"
    /\ runEnd' = IF tabPc = "exit" THEN "raised" ELSE "returned"
    /\ UNCHANGED <<tabConfig, steps, tabRefresh, notifications, caught, tabUsers, notTableau>>

NextTableau ==
    \/ \E ok \in BOOLEAN : Enter(ok)
    \/ \E ok \in BOOLEAN : Publish(ok)
    \/ \E ok \in BOOLEAN : RefreshBegin(ok)
    \/ \E outcome \in AttemptOutcomes : Attempt(outcome)
    \/ \E delivered \in BOOLEAN : Notify(delivered)
    \/ \E delivered \in BOOLEAN : Handler(delivered)
    \/ \E ok \in BOOLEAN : UserEnter(ok)
    \/ \E email \in Emails, group \in GroupNames, signs_in \in BOOLEAN :
          UserAdd(email, group, signs_in)
    \/ \E ok \in BOOLEAN : UserMetadata(ok)
    \/ UserExit

SpecTableau == InitTableau /\ [][NextTableau]_vars

(***************************************************************************)
(* Claims about the Tableau operations                                     *)
(***************************************************************************)
IsPrefix(s, t) == Len(s) <= Len(t) /\ \A i \in 1..Len(s) : s[i] = t[i]

FailureNotices == {i \in 1..Len(notifications) : notifications[i][1] = "FAILURE"}

\* C14: run() never lets an exception reach its caller; the steps happen in
\* the order publish, refresh-and-validate, notify; no refresh job is
\* triggered before the publish step returned; an exception of any step is
\* caught once and, with SMTP switched on, followed by a FAILURE
\* notification before run() returns.
C14_RunNeverPropagates ==
    program = "orchestrator" =>
        /\ runEnd # "raised"
        /\ IsPrefix(steps, <<"publish", "refresh", "notify">>)
        /\ attempt > 0 => Len(steps) >= 1
        /\ caught <= 1
        /\ (tabPc = "done" /\ caught = 1 /\ smtp # "disabled") => FailureNotices # {}

RaisedBeforeLast == {i \in 1..attempt : Raising(attempts_log[i]) /\ i < retries}

\* C15: refresh_and_validate triggers at most `retries` jobs, one per
\* attempt; it returns at the first attempt whose job completed, with
\* attempts equal to that attempt's number; an exception before the last
\* attempt is followed by one sleep and the next attempt; an exception on
\* the last attempt reaches the caller; attempts that all end without
\* success and without an exception give success = false and
\* attempts = retries.
C15_RefreshRetries ==
    program = "orchestrator" =>
        /\ jobs <= attempt /\ attempt <= retries /\ Len(attempts_log) = attempt
        /\ \A i \in 1..attempt : i < attempt => attempts_log[i] # "completed"
        /\ sleeps = Cardinality(RaisedBeforeLast)
        /\ (refresh_end = "none" /\ attempt > 0) =>
              /\ attempt < retries
              /\ attempts_log[attempt] # "completed"
        /\ (refresh_end = "returned" /\ result[1].success) =>
              /\ attempts_log[attempt] = "completed"
              /\ result[1].attempts = attempt
        /\ (refresh_end = "returned" /\ ~result[1].success) =>
              /\ attempt = retries
              /\ result[1].attempts = retries
              /\ retries > 0 => attempts_log[retries] = "not_completed"
        /\ (refresh_end = "raised" /\ attempt > 0) =>
              /\ attempt = retries
              /\ Raising(attempts_log[retries])
        /\ (attempt > 0 /\ attempts_log[attempt] = "completed") =>
              refresh_end = "returned" /\ result[1].success

\* C15 witness: the first attempt raised, the function slept once and the
\* second attempt's job completed.
C15_Witness ==
    /\ program = "orchestrator"
    /\ retries = 2
    /\ attempts_log = <<"poll_raised", "completed">>
    /\ sleeps = 1
    /\ refresh_end = "returned"
    /\ result[1].success
    /\ result[1].attempts = 2

\* C17: once the scope of a client or a manager has ended, every sign-in
\* has been matched by a sign-out and the site holds no session of it; a
\* scope that was entered is left on every path.
C17_ScopesReleaseSessions ==
    tabPc = "done" =>
        /\ signIns > 0 => scope = "left"
        /\ signIns = signOuts
        /\ sessions = {}
        /\ token = None

Grown(before, after) == {k \in DOMAIN before : Len(after[k]) > Len(before[k])}

\* C18: a dry-run add_user_and_assign_group makes the lookups of the real
\* run, creates no user and writes no membership, and records in the
\* summary the buckets the real run would have recorded.
C18_DryRunMirrorsRealRun ==
    (program = "users" /\ user_dry_run /\ last_call # None /\ last_call[1].signed_in) =>
        LET c == last_call[1]
            real == RealRun(c.email, c.group, c.users, c.members, c.summary)
        IN  /\ userAdds = 0 /\ groupAdds = 0
            /\ site_users = c.users /\ group_members = c.members
            /\ c.lookups = real.lookups
            /\ Grown(c.summary, summary) = Grown(c.summary, real.summary)

(***************************************************************************)
(* FDIC field catalogs (bankyleaks)                                        *)
(*                                                                         *)
(* utils.load_fields and SOD._load_sod_fields filter a list of requested   *)
(* fields by the field names of a YAML catalog and join what is left with  *)
(* commas.                                                                 *)
(***************************************************************************)
MaxFields == 2      \* longest list of requested fields

FieldNames == {"CERT", "YEAR", "NOT_A_REAL_FIELD"}
Catalogs == SUBSET {"CERT", "YEAR", "DEPSUM"}
Requests == UNION {[1..n -> FieldNames] : n \in 0..MaxFields}

\* ','.join(fields)
RECURSIVE JoinFields(_)
JoinFields(names) ==
    IF names = <<>> THEN ""
    ELSE IF Len(names) = 1 THEN names[1]
    ELSE names[1] \o "," \o JoinFields(Tail(names))

\* [field for field in selected_fields if field in properties]
ValidFields(selected, available) == SelectSeq(selected, LAMBDA field : field \in available)

\* utils.load_fields: the joined fields, whatever their number.
load_fields(selected, available) ==
    [raised |-> FALSE, value |-> JoinFields(ValidFields(selected, available))]

\* SOD._load_sod_fields: ValueError when no requested field is valid.
load_sod_fields(selected, available) ==
    IF ValidFields(selected, available) = <<>>
       THEN [raised |-> TRUE, value |-> ""]
       ELSE [raised |-> FALSE, value |-> JoinFields(ValidFields(selected, available))]

InitFields ==
    /\ loader \in {"load_fields", "_load_sod_fields"}
    /\ catalog \in Catalogs
    /\ selected_fields \in Requests
    /\ fieldsPc = "start"
    /\ fields = None
    /\ IdleButFields

LoadFields ==
    /\ fieldsPc = "start"
    /\ LET out == IF loader = "load_fields"
                     THEN load_fields(selected_fields, catalog)
                     ELSE load_sod_fields(selected_fields, catalog)
       IN  /\ fieldsPc' = IF out.raised THEN "raised" ELSE "returned"
           /\ fields' = IF out.raised THEN None ELSE Some(out.value)
    /\ UNCHANGED <<loader, catalog, selected_fields, notFields>>

NextFields == LoadFields

SpecFields == InitFields /\ [][NextFields]_vars

KnownRequested == {i \in 1..Len(selected_fields) : selected_fields[i] \in catalog}

\* C19: field-catalog filtering returns the requested fields that are in
\* the catalog, in requested order and joined by commas, dropping the
\* unknown ones (CERT and NOT_A_REAL_FIELD against a catalog with only
\* CERT give "CERT"), and raises when no requested field is in the catalog.
C19_FieldCatalogFilter ==
    fieldsPc # "start" =>
        /\ KnownRequested = {} => fieldsPc = "raised"
        /\ KnownRequested # {} =>
              /\ fieldsPc = "returned"
              /\ fields = Some(JoinFields(ValidFields(selected_fields, catalog)))
        /\ (selected_fields = <<"CERT", "NOT_A_REAL_FIELD">> /\ catalog = {"CERT"}) =>
              fields = Some("CERT")
        /\ (selected_fields = <<"YEAR", "CERT">> /\ catalog = {"CERT", "YEAR"}) =>
              fields = Some("YEAR,CERT")

(***************************************************************************)
(* Hyper file column types (platypus/utils/hyper_file_utils.py)            *)
(*                                                                         *)
(* pandas_to_smallest_sqltype gives each column of a data frame the        *)
(* smallest SQL type its values fit.  The model types one column.          *)
(***************************************************************************)
MaxColLen == 2      \* most values in a column

SMALL_INT_MAX == 255
INT_MAX == 65535
INT16_MIN == -32768
INT16_MAX == 32767
CHAR_MAX == 255

Twice(text) == text \o text
LongText == Twice(Twice(Twice(Twice(Twice(Twice(Twice(Twice("x"))))))))

IntValues ==
    {INT16_MIN - 1, INT16_MIN, -1, 0, 1, SMALL_INT_MAX, SMALL_INT_MAX + 1,
     INT16_MAX, INT16_MAX + 1, INT_MAX, INT_MAX + 1}
TextValues == {"Test", "ab", LongText}

ColumnsOf(dtype, values) ==
    {[dtype |-> dtype, values |-> vs] : vs \in UNION {[1..n -> values] : n \in 1..MaxColLen}}

\* The columns of the data frame: integers, texts, floats with and without
\* nulls, booleans and timestamps.
DfColumns ==
    ColumnsOf("int64", IntValues) \cup ColumnsOf("object", TextValues)
    \cup ColumnsOf("float64", {Some(1), None}) \cup ColumnsOf("bool", {TRUE})
    \cup ColumnsOf("datetime64", {Some(1), None})

\* df[col_name].max() and .min()
ColMax(values) == CHOOSE v \in Elements(values) : \A w \in Elements(values) : w <= v
ColMin(values) == CHOOSE v \in Elements(values) : \A w \in Elements(values) : v <= w

\* df[col_name].str.len().max()
MaxLength(values) == ColMax([i \in 1..Len(values) |-> Len(values[i])])

\* if min_value >= 0: ... if max_value <= 255
IntegerType_Strict(min_value, max_value) ==
    IF min_value >= 0
       THEN IF max_value < SMALL_INT_MAX THEN "small_int"
            ELSE IF max_value <= INT_MAX THEN "int"
            ELSE "big_int"
       ELSE IF min_value >= INT16_MIN /\ max_value <= INT16_MAX THEN "int"
            ELSE "big_int"

IntegerType(min_value, max_value) ==
    IF min_value >= 0
       THEN IF max_value <= SMALL_INT_MAX THEN "small_int"
            ELSE IF max_value <= INT_MAX THEN "int"
            ELSE "big_int"
       ELSE IF min_value >= INT16_MIN /\ max_value <= INT16_MAX THEN "int"
            ELSE "big_int"

AllNull(col) == col.dtype \in {"float64", "datetime64"} /\ Elements(col.values) = {None}

\* One pass of the loop over df.dtypes.items(): None when the column is
\* all null and left out, else its SQL type.
pandas_to_smallest_sqltype(col) ==
    IF AllNull(col) THEN None
    ELSE IF col.dtype = "int64"
       THEN Some([type |-> IntegerType(ColMin(col.values), ColMax(col.values)), length |-> 0])
    ELSE IF col.dtype = "float64" THEN Some([type |-> "double", length |-> 0])
    ELSE IF col.dtype = "bool" THEN Some([type |-> "bool", length |-> 0])
    ELSE IF col.dtype = "object"
       THEN IF MaxLength(col.values) <= CHAR_MAX
               THEN Some([type |-> "char", length |-> MaxLength(col.values)])
               ELSE Some([type |-> "text", length |-> 0])
    ELSE Some([type |-> "text", length |-> 0])

InitHyper ==
    /\ df_column \in DfColumns
    /\ hyperPc = "start"
    /\ columns = None
    /\ IdleButHyper

TypeColumn ==
    /\ hyperPc = "start"
    /\ hyperPc' = "done"
    /\ columns' = pandas_to_smallest_sqltype(df_column)
    /\ UNCHANGED <<df_column, notHyper>>

NextHyper == TypeColumn

SpecHyper == InitHyper /\ [][NextHyper]_vars

Values == Elements(df_column.values)
TypedAs(type) == columns # None /\ columns[1].type = type

\* C20: an integer column with no negative value is typed small-int when
\* all its values are at most 255, int when all are at most 65535, else
\* big-int; an integer column with a negative value is typed int when all
\* its values are within the signed 16-bit range, else big-int; a column
\* holding only 1 is SMALLINT and a column of short texts is CHAR.
C20_SmallestIntegerType ==
    hyperPc = "done" =>
        /\ df_column.dtype = "int64" =>
              IF \A v \in Values : v >= 0
                 THEN IF \A v \in Values : v <= 255 THEN TypedAs("small_int")
                      ELSE IF \A v \in Values : v <= 65535 THEN TypedAs("int")
                      ELSE TypedAs("big_int")
                 ELSE IF \A v \in Values : v >= -32768 /\ v <= 32767 THEN TypedAs("int")
                      ELSE TypedAs("big_int")
        /\ df_column = [dtype |-> "int64", values |-> <<1>>] => TypedAs("small_int")
        /\ df_column = [dtype |-> "object", values |-> <<"Test">>] =>
              columns = Some([type |-> "char", length |-> 4])

\* C20 witness: a column whose largest value is exactly 255 was typed
\* small-int.
C20_Witness ==
    /\ hyperPc = "done"
    /\ df_column = [dtype |-> "int64", values |-> <<0, 255>>]
    /\ TypedAs("small_int")

(***************************************************************************)
(* Further claims about the scraper and the Tableau operations             *)
(***************************************************************************)
PagesOf(rn) == {i \in 1..Len(processed) : aba_numbers[i] = rn}

\* C29: the scraper stores a Wire row of this run for a routing number only
\* if a page of that number had a Fedwire section, and an ACH row only if a
\* page had a FedACH section, so no stored record is replaced by a row of
\* empty values.
C29_RowsOnlyForFoundSections ==
    /\ \A row \in wire_table :
          row.scraped_at = "now" =>
              \E i \in PagesOf(row.routing_number) : processed[i].wire # None
    /\ \A row \in ach_table :
          row.scraped_at = "now" =>
              \E i \in PagesOf(row.routing_number) : processed[i].ach # None

\* C30: a result returned by refresh_and_validate with success = true
\* carries no error text, whatever the earlier attempts did.
C30_SuccessCarriesNoError ==
    (program = "orchestrator" /\ refresh_end = "returned" /\ result[1].success) =>
        ~result[1].error

(***************************************************************************)
(* Further claims about the sync service                                   *)
(***************************************************************************)
Succeeded(outcome) == outcome \in {"merged", "no_rows"}
LocalRows(t) == IF local[t] = None THEN {} ELSE local[t][1]

\* C27: no remote change is missed for good: a sync_one that succeeds
\* leaves in the local table every row the remote table holds at that
\* time, with its latest values.
C27_NoChangeMissed ==
    [][(lastSync' # lastSync /\ Succeeded(lastSync'[1].outcome)) =>
          \A r \in source[lastSync'[1].table] :
              local'[lastSync'[1].table] # None /\ r \in local'[lastSync'[1].table][1]]_vars

\* C28: sequential sync_many attempts every table spec in the given order;
\* a table whose sync fails neither keeps the later tables from being
\* synced nor loses the results of the earlier ones.
C28_SequentialAttemptsAll ==
    mode = "real" =>
        /\ syncPc \in {"done", "raised"} => syncIdx = NTables
        /\ syncPc # "raised"

(***************************************************************************)
(* Retry loops                                                             *)
(*                                                                         *)
(* The retry decorator around _fetch_incremental_arrow_reader              *)
(* (development/incremental.py) with the steps of sync_one that follow the *)
(* fetch, and DremioDatabase.get_client (platypus/dremio_client).          *)
(***************************************************************************)
MaxAuthRetries == 4     \* largest max_retries handed to get_client

RETRY_ATTEMPTS == 3
DELAY_SECONDS == 1
BACKOFF == 2

\* The exceptions an attempt can raise.
AttemptErrors == {"timeout", "unavailable"}
\* The steps of sync_one after the fetch: they succeed, or the primary key
\* is missing, or the MERGE raises.
LaterFaults == {"none", "no_pk", "merge"}

\* retry: if tries >= attempts: raise
GiveUp_Late(n, attempts) == n > attempts

GiveUp(n, attempts) == n >= attempts

\* retry: cur_delay after n failed attempts (delay_seconds, then *= backoff).
CurDelay(n) == DELAY_SECONDS * BACKOFF ^ (n - 1)

InitRetry ==
    /\ retry_program \in {"sync_one", "get_client"}
    /\ max_retries \in 0..MaxAuthRetries
    /\ retry_program = "sync_one" => max_retries = 0
    /\ tries = 0
    /\ errors_seen = <<>>
    /\ delays = <<>>
    /\ retryPc = "loop"
    /\ raised_exc = None
    /\ self_client = None
    /\ return_value = None
    /\ later_runs = 0
    /\ IdleButRetry

\* retry.wrapped, lines 50-61: one pass of while True around
\* self.dremio.toArrow(sql).to_reader().
FetchAttempt(ok, err) ==
    /\ retry_program = "sync_one" /\ retryPc = "loop"
    /\ tries' = tries + 1
    /\ IF ok
          THEN /\ retryPc' = "fetched"
               /\ UNCHANGED <<errors_seen, delays, raised_exc>>
          ELSE /\ errors_seen' = Append(errors_seen, err)
               /\ IF GiveUp(tries + 1, RETRY_ATTEMPTS)
                     THEN /\ retryPc' = "raised"
                          /\ raised_exc' = Some(err)
                          /\ UNCHANGED delays
                     ELSE /\ delays' = Append(delays, CurDelay(tries + 1))
                          /\ UNCHANGED <<retryPc, raised_exc>>
    /\ UNCHANGED <<retry_program, max_retries, self_client, return_value, later_runs,
                   notRetry>>

\* sync_one, lines 239-281: what follows the fetch, run once.
LaterSteps(fault) ==
    /\ retry_program = "sync_one" /\ retryPc = "fetched"
    /\ later_runs' = later_runs + 1
    /\ IF fault = "none"
          THEN retryPc' = "returned" /\ raised_exc' = raised_exc
          ELSE retryPc' = "raised" /\ raised_exc' = Some(fault)
    /\ UNCHANGED <<retry_program, max_retries, tries, errors_seen, delays, self_client,
                   return_value, notRetry>>

\* get_client, lines 48-66: one pass of while retries < max_retries.  A
\* successful pass stores the client and ends with a bare return.
Authenticate(ok, err) ==
    /\ retry_program = "get_client" /\ retryPc = "loop"
    /\ tries < max_retries
    /\ IF ok
          THEN /\ self_client' = Some("client")
               /\ return_value' = None
               /\ retryPc' = "returned"
               /\ UNCHANGED <<tries, errors_seen, delays, raised_exc>>
          ELSE /\ tries' = tries + 1
               /\ errors_seen' = Append(errors_seen, err)
               /\ IF tries + 1 >= max_retries
                     THEN /\ retryPc' = "raised"
                          /\ raised_exc' = Some(err)
                          /\ UNCHANGED delays
                     ELSE /\ delays' = Append(delays, 2 ^ (tries + 1))
                          /\ UNCHANGED <<retryPc, raised_exc>>
               /\ UNCHANGED <<self_client, return_value>>
    /\ UNCHANGED <<retry_program, max_retries, later_runs, notRetry>>

\* get_client: the loop condition is false and the function ends.
LoopEnds ==
    /\ retry_program = "get_client" /\ retryPc = "loop"
    /\ ~(tries < max_retries)
    /\ retryPc' = "returned"
    /\ return_value' = None
    /\ UNCHANGED <<retry_program, max_retries, tries, errors_seen, delays, raised_exc,
                   self_client, later_runs, notRetry>>

NextRetry ==
    \/ \E ok \in BOOLEAN, err \in AttemptErrors : FetchAttempt(ok, err)
    \/ \E fault \in LaterFaults : LaterSteps(fault)
    \/ \E ok \in BOOLEAN, err \in AttemptErrors : Authenticate(ok, err)
    \/ LoopEnds

SpecRetry == InitRetry /\ [][NextRetry]_vars

\* C22: within one sync_one only the fetch is retried: at most 3 attempts;
\* a failed attempt before the last is followed by a delay and another
\* attempt; the first successful attempt lets the sync go on; the failure
\* of the last attempt leaves sync_one with its exception; a failure of a
\* later step is not retried.
C22_OnlyFetchRetried ==
    retry_program = "sync_one" =>
        /\ tries <= 3
        /\ later_runs <= 1
        /\ Len(errors_seen) <= tries
        /\ Len(delays) = (IF Len(errors_seen) = 3 THEN 2 ELSE Len(errors_seen))
        /\ retryPc = "loop" => (Len(errors_seen) = tries /\ tries < 3)
        /\ retryPc = "fetched" => (tries = Len(errors_seen) + 1 /\ later_runs = 0)
        /\ Len(errors_seen) = 3 => (retryPc = "raised" /\ raised_exc = Some(errors_seen[3]))
        /\ (retryPc = "raised" /\ later_runs = 0) => Len(errors_seen) = 3
        /\ later_runs = 1 =>
              /\ tries = Len(errors_seen) + 1
              /\ retryPc \in {"returned", "raised"}
              /\ retryPc = "raised" => raised_exc[1] \in {"no_pk", "merge"}

\* C22 witness: two failed fetches, each followed by a delay, a third that
\* succeeds, and a merge failure that ends the sync without another fetch.
C22_Witness ==
    /\ retry_program = "sync_one"
    /\ tries = 3
    /\ Len(errors_seen) = 2
    /\ delays = <<1, 2>>
    /\ later_runs = 1
    /\ retryPc = "raised"
    /\ raised_exc = Some("merge")

\* C26: get_client makes at most max_retries authentication attempts, stops
\* at the first that succeeds and returns the authenticated client, waits
\* 2**attempt seconds between failed attempts, raises the last error once
\* max_retries attempts failed, and never returns without an authenticated
\* client.
C26_GetClientAuthenticates ==
    retry_program = "get_client" =>
        /\ Len(errors_seen) <= max_retries
        /\ \A i \in 1..Len(delays) : delays[i] = 2 ^ i
        /\ retryPc = "raised" =>
              /\ Len(errors_seen) = max_retries
              /\ raised_exc = Some(errors_seen[max_retries])
        /\ retryPc = "returned" =>
              /\ self_client # None
              /\ return_value = self_client

(***************************************************************************)
(* Chunked fetch to Parquet (platypus/dremio_client/data_fetcher.py)       *)
(***************************************************************************)
MaxBatches == 2     \* most batches one endpoint's reader yields

RowCounts == {1, 2}
EndpointStreams == UNION {[1..n -> RowCounts] : n \in 0..MaxBatches}
Streams == [1..1 -> EndpointStreams] \cup [1..2 -> EndpointStreams]
ChunkSizes == {1, 2, 3}

\* A batch of the stream: where it came from and batch.num_rows.
Batch(e, i) == [endpoint |-> e, index |-> i, num_rows |-> endpoints[e][i]]

RECURSIVE SumRows(_)
SumRows(batches) ==
    IF batches = <<>> THEN 0 ELSE Head(batches).num_rows + SumRows(Tail(batches))

\* if cumulative_rows >= chunk_size
ShouldFlush_Strict(rows, size) == rows > size

ShouldFlush(rows, size) == rows >= size

\* table = pa.Table.from_batches(batch_buffer); the writer is opened on the
\* first table when a path was given; writer.write_table(table).
WriteTable(buffer) ==
    /\ writer' = IF writer = "none" /\ full_output_path THEN "open" ELSE writer
    /\ IF writer = "open" \/ full_output_path
          THEN /\ parquet' = parquet \o buffer
               /\ tables_written' = Append(tables_written, SumRows(buffer))
          ELSE UNCHANGED <<parquet, tables_written>>

\* finally: if writer: writer.close()
CloseWriter(w) == IF w = "open" THEN "closed" ELSE w

InitFetch ==
    /\ endpoints \in Streams
    /\ chunk_size \in ChunkSizes
    /\ full_output_path \in BOOLEAN
    /\ fetchPc = "start"
    /\ endpoint = 0
    /\ chunks_read = 0
    /\ batch_buffer = <<>>
    /\ cumulative_rows = 0
    /\ writer = "none"
    /\ parquet = <<>>
    /\ tables_written = <<>>
    /\ IdleButFetch

\* fetch_chunk, lines 26-40 and 42-43: the flight info is there and the
\* reader of the first endpoint is opened.
FetchStart ==
    /\ fetchPc = "start"
    /\ fetchPc' = "reading"
    /\ endpoint' = 1
    /\ UNCHANGED <<endpoints, chunk_size, full_output_path, chunks_read, batch_buffer,
                   cumulative_rows, writer, parquet, tables_written, notFetch>>

\* Lines 45-58: reader.read_chunk() yields a batch; it is buffered and the
\* buffer flushed when it holds chunk_size rows.
ReadChunk ==
    /\ fetchPc = "reading"
    /\ chunks_read < Len(endpoints[endpoint])
    /\ chunks_read' = chunks_read + 1
    /\ LET batch == Batch(endpoint, chunks_read + 1)
           buffer == Append(batch_buffer, batch)
           rows == cumulative_rows + batch.num_rows
       IN  IF ShouldFlush(rows, chunk_size)
              THEN /\ WriteTable(buffer)
                   /\ batch_buffer' = <<>>
                   /\ cumulative_rows' = 0
              ELSE /\ batch_buffer' = buffer
                   /\ cumulative_rows' = rows
                   /\ UNCHANGED <<writer, parquet, tables_written>>
    /\ UNCHANGED <<endpoints, chunk_size, full_output_path, fetchPc, endpoint, notFetch>>

\* Lines 59-60: StopIteration ends the loop of this endpoint and the next
\* endpoint's reader is opened.
NextEndpoint ==
    /\ fetchPc = "reading"
    /\ chunks_read = Len(endpoints[endpoint])
    /\ endpoint < Len(endpoints)
    /\ endpoint' = endpoint + 1
    /\ chunks_read' = 0
    /\ UNCHANGED <<endpoints, chunk_size, full_output_path, fetchPc, batch_buffer,
                   cumulative_rows, writer, parquet, tables_written, notFetch>>

\* Lines 59-70: StopIteration on the last endpoint; what is left in the
\* buffer is written and the finally block closes the writer.
FetchFinish ==
    /\ fetchPc = "reading"
    /\ chunks_read = Len(endpoints[endpoint])
    /\ endpoint = Len(endpoints)
    /\ IF batch_buffer # <<>>
          THEN /\ parquet' = (IF full_output_path THEN parquet \o batch_buffer ELSE parquet)
               /\ tables_written' = (IF full_output_path
                                        THEN Append(tables_written, SumRows(batch_buffer))
                                        ELSE tables_written)
               /\ writer' = (IF full_output_path THEN "closed" ELSE writer)
          ELSE /\ writer' = CloseWriter(writer)
               /\ UNCHANGED <<parquet, tables_written>>
    /\ fetchPc' = "returned"
    /\ UNCHANGED <<endpoints, chunk_size, full_output_path, endpoint, chunks_read,
                   batch_buffer, cumulative_rows, notFetch>>

\* do_get or read_chunk raises something other than StopIteration: the
\* exception leaves fetch_chunk through the finally block.
ReadRaises ==
    /\ fetchPc = "reading"
    /\ fetchPc' = "raised"
    /\ writer' = CloseWriter(writer)
    /\ UNCHANGED <<endpoints, chunk_size, full_output_path, endpoint, chunks_read,
                   batch_buffer, cumulative_rows, parquet, tables_written, notFetch>>

NextFetch ==
    \/ FetchStart
    \/ ReadChunk
    \/ NextEndpoint
    \/ FetchFinish
    \/ ReadRaises

SpecFetch == InitFetch /\ [][NextFetch]_vars

EndpointBatches(e, n) == [i \in 1..n |-> Batch(e, i)]

RECURSIVE ReadUpTo(_)
ReadUpTo(e) ==
    IF e = 0 THEN <<>> ELSE ReadUpTo(e - 1) \o EndpointBatches(e, Len(endpoints[e]))

\* The batches read from the stream so far, in stream order.
ReadBatches ==
    IF endpoint = 0 THEN <<>>
    ELSE ReadUpTo(endpoint - 1) \o EndpointBatches(endpoint, chunks_read)

\* C24: with an output path, fetch_chunk writes every batch it read exactly
\* once and in stream order: batches are buffered until the buffer holds
\* chunk_size rows, then flushed to the lazily opened writer and the buffer
\* reset; the rest of the buffer is flushed after the loop; the writer is
\* closed on every exit path; on normal return the rows written are the
\* rows read.
C24_EveryBatchWrittenOnce ==
    full_output_path =>
        /\ fetchPc = "reading" =>
              /\ parquet \o batch_buffer = ReadBatches
              /\ cumulative_rows = SumRows(batch_buffer)
              /\ cumulative_rows < chunk_size
        /\ \A i \in 1..Len(tables_written) :
              (i < Len(tables_written) \/ fetchPc # "returned") =>
                  tables_written[i] >= chunk_size
        /\ writer = "none" <=> tables_written = <<>>
        /\ fetchPc \in {"returned", "raised"} => writer # "open"
        /\ fetchPc = "returned" =>
              /\ parquet = ReadUpTo(Len(endpoints))
              /\ SumRows(parquet) = SumRows(ReadUpTo(Len(endpoints)))

\* C24 witness: two endpoints, a flush in the middle of the stream that
\* spans both, and a last batch written by the flush after the loop.
C24_Witness ==
    /\ full_output_path
    /\ fetchPc = "returned"
    /\ endpoints = <<<<1>>, <<1, 1>>>>
    /\ chunk_size = 2
    /\ tables_written = <<2, 1>>
    /\ Len(parquet) = 3
    /\ writer = "closed"

(***************************************************************************)
(* Isochrone generation (isoreach)                                         *)
(***************************************************************************)
BranchFrames == {<<"BC01">>, <<"BC01", "BC02">>}
IntervalLists == {<<10>>, <<5, 10>>, <<10, 5>>}
SECONDS_PER_MINUTE == 60

\* intervals_sec = [m * 60 for m in cfg.time_intervals_min]
IntervalsSec(minutes) == [i \in 1..Len(minutes) |-> minutes[i] * SECONDS_PER_MINUTE]

\* itertools.product(a, b) as a list: every element of a with every element
\* of b, the second index moving fastest.
Product(a, b) ==
    [k \in 1..(Len(a) * Len(b)) |->
        <<a[((k - 1) \div Len(b)) + 1], b[((k - 1) % Len(b)) + 1]>>]

\* The (minutes, seconds) pairs of the inner loop.
Pairs(minutes) == Product(minutes, IntervalsSec(minutes))

\* What one iteration can meet: the request fails, the polygon cannot be
\* built, or one polygon comes back.
IsoOutcomes == {"request_failed", "bad_polygon", "polygon"}

InitIso ==
    /\ gdf_bc \in BranchFrames
    /\ time_intervals_min \in IntervalLists
    /\ isoPc = "loop"
    /\ iso_done = 0
    /\ iso_requests = <<>>
    /\ iso_rows = <<>>
    /\ IdleButIso

\* generate_isochrones: one iteration of the inner loop (branch_polys.py
\* lines 139-166, cust_in_isos.py lines 131-157).
IsoRequest(outcome) ==
    /\ isoPc = "loop"
    /\ iso_done < Len(gdf_bc) * Len(Pairs(time_intervals_min))
    /\ LET pairs == Pairs(time_intervals_min)
           bc_code == gdf_bc[(iso_done \div Len(pairs)) + 1]
           pair == pairs[(iso_done % Len(pairs)) + 1]
       IN  /\ iso_requests' = Append(iso_requests, [bc_code |-> bc_code, seconds |-> pair[2]])
           /\ iso_rows' = IF outcome = "polygon"
                             THEN Append(iso_rows, [bc_code |-> bc_code,
                                                    time_frame_minutes |-> pair[1],
                                                    seconds |-> pair[2]])
                             ELSE iso_rows
    /\ iso_done' = iso_done + 1
    /\ UNCHANGED <<gdf_bc, time_intervals_min, isoPc, notIso>>

\* generate_isochrones: both loops are over and the frame is returned.
IsoReturn ==
    /\ isoPc = "loop"
    /\ iso_done = Len(gdf_bc) * Len(Pairs(time_intervals_min))
    /\ isoPc' = "done"
    /\ UNCHANGED <<gdf_bc, time_intervals_min, iso_done, iso_requests, iso_rows, notIso>>

NextIso ==
    \/ \E outcome \in IsoOutcomes : IsoRequest(outcome)
    \/ IsoReturn

SpecIso == InitIso /\ [][NextIso]_vars

RequestsFor(bc_code, seconds) ==
    {k \in 1..Len(iso_requests) :
        iso_requests[k].bc_code = bc_code /\ iso_requests[k].seconds = seconds}

\* C25: one routing request is made for each (branch, requested interval)
\* pair, every polygon record carries the minutes that were requested for it
\* (requested seconds = 60 x time_frame_minutes), and a failed request does
\* not keep the remaining pairs from being requested.
C25_OneRequestPerPair ==
    /\ \A k \in 1..Len(iso_rows) : iso_rows[k].seconds = 60 * iso_rows[k].time_frame_minutes
    /\ isoPc = "done" =>
          /\ Len(iso_requests) = Len(gdf_bc) * Len(time_intervals_min)
          /\ \A b \in 1..Len(gdf_bc), i \in 1..Len(time_intervals_min) :
                Cardinality(RequestsFor(gdf_bc[b], 60 * time_intervals_min[i])) = 1

(***************************************************************************)
(* Parallel sync_many (development/incremental.py)                         *)
(*                                                                         *)
(* Every table spec is handed to a worker process, and every worker opens  *)
(* the same database file for the whole of its sync_one.  Whether          *)
(* duckdb.connect succeeds on a file another process has open is left to   *)
(* the database library: both outcomes are in the model.                   *)
(***************************************************************************)
MergedCounts == {0, 1}
SyncFaults == {"none", "fetch", "merge"}

\* The workers that hold a connection to the database file.
Connected == {t \in Tables : worker[t] = "connected"}
Finished(t) == worker[t] \in {"done", "failed"}

InitPar ==
    /\ worker = [t \in Tables |-> "queued"]
    /\ merged = [t \in Tables |-> 0]
    /\ worker_error = [t \in Tables |-> None]
    /\ watermark_writers = [t \in Tables |-> {}]
    /\ par_results = <<>>
    /\ collected = {}
    /\ parPc = "pool"
    /\ IdleButPar

\* _sync_entrypoint_subprocess -> sync_one -> DuckDBSession.__enter__:
\* duckdb.connect(db_path) in the worker of table t.
WorkerConnect(t, opens) ==
    /\ parPc \in {"pool", "raising"}
    /\ worker[t] = "queued"
    /\ (Connected \ {t} = {}) => opens
    /\ IF opens
          THEN /\ worker' = [worker EXCEPT ![t] = "connected"]
               /\ UNCHANGED worker_error
          ELSE /\ worker' = [worker EXCEPT ![t] = "failed"]
               /\ worker_error' = [worker_error EXCEPT ![t] = Some("database file is open")]
    /\ UNCHANGED <<merged, watermark_writers, par_results, collected, parPc, notPar>>

\* sync_one in the worker of table t, from the watermark read to the end of
\* the with block: the watermark row of t is written unless a step raises,
\* and the connection is closed.
WorkerSync(t, n, fault) ==
    /\ parPc \in {"pool", "raising"}
    /\ worker[t] = "connected"
    /\ IF fault = "none"
          THEN /\ worker' = [worker EXCEPT ![t] = "done"]
               /\ merged' = [merged EXCEPT ![t] = n]
               /\ watermark_writers' = [watermark_writers EXCEPT ![t] = @ \cup {t}]
               /\ UNCHANGED worker_error
          ELSE /\ worker' = [worker EXCEPT ![t] = "failed"]
               /\ worker_error' = [worker_error EXCEPT ![t] = Some(fault)]
               /\ UNCHANGED <<merged, watermark_writers>>
    /\ UNCHANGED <<par_results, collected, parPc, notPar>>

\* sync_many, lines 323-324: as_completed yields a finished future and
\* fut.result() returns its pair or re-raises its exception.
Collect(t) ==
    /\ parPc = "pool"
    /\ Finished(t) /\ t \notin collected
    /\ collected' = collected \cup {t}
    /\ IF worker[t] = "done"
          THEN /\ par_results' = Append(par_results, <<t, merged[t]>>)
               /\ UNCHANGED parPc
          ELSE /\ parPc' = "raising"
               /\ UNCHANGED par_results
    /\ UNCHANGED <<worker, merged, worker_error, watermark_writers, notPar>>

\* sync_many, lines 307 and 325: the with block waits for every worker and
\* then the results are returned, or the exception leaves sync_many.
PoolEnds ==
    /\ \A t \in Tables : Finished(t)
    /\ \/ parPc = "pool" /\ collected = Tables /\ parPc' = "returned"
       \/ parPc = "raising" /\ parPc' = "raised"
    /\ UNCHANGED <<worker, merged, worker_error, watermark_writers, par_results, collected,
                   notPar>>

NextPar ==
    \/ \E t \in Tables, opens \in BOOLEAN : WorkerConnect(t, opens)
    \/ \E t \in Tables, n \in MergedCounts, fault \in SyncFaults : WorkerSync(t, n, fault)
    \/ \E t \in Tables : Collect(t)
    \/ PoolEnds

SpecPar == InitPar /\ [][NextPar]_vars

\* C21: parallel sync_many over N table specs sharing one database file
\* ends, under every interleaving of the workers, with N (table, count)
\* pairs, one per spec; no worker fails or is lost because another worker
\* has the file open; each table's watermark row is written only by that
\* table's own sync.
C21_ParallelSyncCompletes ==
    /\ \A t \in Tables : worker_error[t] # Some("database file is open")
    /\ \A t \in Tables : watermark_writers[t] \subseteq {t}
    /\ (parPc \in {"returned", "raised"} /\ \A t \in Tables : worker_error[t] \in {None, Some("database file is open")}) =>
          /\ parPc = "returned"
          /\ Len(par_results) = NTables
          /\ \A t \in Tables : \E k \in 1..Len(par_results) : par_results[k] = <<t, merged[t]>>

(***************************************************************************)
(* Further claim about the batch run: the log writes of the pool jobs      *)
(***************************************************************************)
\* C23: when the due queries of the SQL batch have been run by the pool,
\* query_log has gained, under every interleaving of the jobs, exactly one
\* row per query run, and the rows differ in id (their position in the
\* table: id comes from the sequence query_log_seq); no log write is lost.
C23_OneLogRowPerPoolJob ==
    (path = "sql" /\ pc \in {"mover", "done", "raised"}) =>
        /\ Len(query_log) = logMark[1] + Cardinality(to_run)
        /\ \A q \in to_run : Cardinality(NewLogRows(q)) = 1

====
